---------------------------- MODULE Spec2Model ----------------------------
(***************************************************************************)
(* Event log and webhook delivery engine of goapitemplate.                 *)
(*                                                                         *)
(*   Spec         the delivery engine: DeliverEvent, the attemptDelivery   *)
(*                loop run by dispatch goroutines and by sweeps            *)
(*                (RetryFailedDeliveries), UpdateWebhook, the clock and a  *)
(*                process restart.  The store's writes succeed.            *)
(*   SpecFaults   the same engine with store reads and writes that may     *)
(*                fail.                                                    *)
(*   SpecLog      concurrent CreateEventWithSequence transactions.         *)
(*   SpecPure     deliverToEndpoint applied to outcomes drawn by Init.     *)
(*   SpecBackoff  calculateRetryDelay applied to attempt indexes.          *)
(*   SpecRequest  the request deliverToEndpoint builds.                    *)
(*   SpecPublish  Manager.Subscribe and Manager.Publish; SpecPublishFaults *)
(*                the same with a store whose writes may fail.             *)
(*   SpecLogFaults  SpecLog with scans and writes that may fail.           *)
(*   SpecCancel   Spec with a RetryFailedDeliveries ctx that is cancelled.  *)
(*   SpecScheduled  the engine under the retry scheduler of main, with     *)
(*                fairness; SpecInvocation follows one delivery through it.*)
(*   SpecSettings  maxRetries and timeout as attemptDelivery computes them.*)
(*   SpecStats    GetWebhookStats beside the engine.                       *)
(*   SpecLimiter  the RateLimit middleware with concurrent requests.       *)
(*   SpecWorkflow RegisterWorkflow and the execution of a workflow.        *)
(*                                                                         *)
(* Time is counted in whole seconds.                                       *)
(***************************************************************************)
EXTENDS Integers, Sequences, FiniteSets, TLC

VARIABLES
    now,          \* the wall clock, in seconds
    webhooks,     \* table webhook_endpoints: webhook id -> row
    deliveries,   \* table webhook_deliveries: sequence of rows, row i has id i
    tasks,        \* goroutines running attemptDelivery / RetryFailedDeliveries
    hist,         \* history: per delivery id, its HTTP attempts so far
    calls,        \* history: per event id, the number of DeliverEvent calls
    updates,      \* history: the number of UpdateWebhook calls
    dbFaults,     \* whether store operations may fail in this behaviour
    lastCall,     \* history: how the last DeliverEvent call went
    mgr,          \* the event Manager, its store and its Publish calls
    events,       \* table events: set of committed rows
    txs,          \* CreateEventWithSequence transactions in progress
    pin,          \* SpecPure: the input drawn
    pout,         \* SpecPure: the result computed
    ppc,          \* SpecPure: which function has been applied
    stats,        \* the GetWebhookStats call: its position and its counts
    limiter,      \* the RateLimit middleware: its clients and its requests
    wf            \* the WorkflowManager: the workflow and its execution

engineVars ==
    <<now, webhooks, deliveries, tasks, hist, calls, updates, dbFaults, lastCall>>
logVars == <<events, txs>>
pureVars == <<pin, pout, ppc>>
mgrVars == <<mgr>>
auxVars == <<stats, limiter, wf>>
vars == <<now, webhooks, deliveries, tasks, hist, calls, updates, dbFaults,
          lastCall, events, txs, pin, pout, ppc, mgr, stats,
          limiter, wf>>

----------------------------------------------------------------------------
(* Bounds of the model *)

MaxTime == 1
MaxDeliveries == 2
MaxSweeps == 1
MaxCalls == 2
MaxUpdates == 1
MaxAppends == 3
MaxAttempt == 70
MaxPublishes == 2
MaxSubscribes == 3
MaxHandled == 3
MaxClock == 2

----------------------------------------------------------------------------
(* Values *)

\* A nil *time.Time (SQL NULL in next_retry / last_attempt).
NoTime == -1

\* maxRetries = 3 when the endpoint's max_retries is <= 0.
DefaultMaxRetries == 3

\* Backoff cap, in seconds.
MaxDelaySeconds == 30

WebhookIds == {"w1", "w2"}

\* The order in which Find returns the rows of webhook_endpoints.
WebhookOrder == <<"w1", "w2">>

EventTypes == {"user.created", "payment.processed"}

\* The events handed to DeliverEvent (rows of table events).
Events ==
    [e1 |-> [id |-> "e1", type |-> "user.created"],
     e2 |-> [id |-> "e2", type |-> "payment.processed"]]

EventIds == DOMAIN Events

Range(s) == {s[i] : i \in DOMAIN s}

NoError == [msg |-> "", code |-> 0]

NoBody == [text |-> "", len |-> 0]


\* len(responseStr) > 1000 cuts the stored response.
MaxResponseLen == 1000

NoResponse == [text |-> "", len |-> 0, truncated |-> FALSE]

TypeLists ==
    {<<"user.created">>, <<"payment.processed", "user.created">>,
     <<"payment.processed">>}

\* What one HTTP call can come to.  A body is its text and its length.
ErrorKinds == {"marshal_error", "request_error", "transport_error"}

Outcome(kind, code, text, len) ==
    [kind |-> kind, code |-> code, body |-> [text |-> text, len |-> len]]

\* The outcomes the endpoints of Spec produce.
EngineOutcomes ==
    {Outcome("response", 200, "ok", 2),
     Outcome("response", 500, "boom", 4),
     Outcome("transport_error", 0, "", 0)}

----------------------------------------------------------------------------
(* DeliverEvent: matching *)

\* Mutant: the enabled filter is dropped from the query.
FindEnabledAll(ws) == WebhookOrder

\* Where("enabled = ?", true).Find(&allWebhooks)
FindEnabled(ws) == SelectSeq(WebhookOrder, LAMBDA w : ws[w].enabled)

\* for _, eventType := range webhook.EventTypes { if eventType == event.Type ... break }
RECURSIVE ContainsType(_, _, _)
ContainsType(types, t, i) ==
    IF i > Len(types) THEN FALSE
    ELSE IF types[i] = t THEN TRUE
    ELSE ContainsType(types, t, i + 1)

\* the filter loop over allWebhooks
FilterByType(all, ws, t) ==
    SelectSeq(all, LAMBDA w : ContainsType(ws[w].eventTypes, t, 1))

\* the delivery record DeliverEvent creates
NewDelivery(id, w, e) ==
    [id |-> id, webhook |-> w, event |-> e, status |-> "pending",
     attemptCount |-> 0, lastAttempt |-> NoTime, nextRetry |-> NoTime,
     response |-> NoResponse, errorMessage |-> NoError]

----------------------------------------------------------------------------
(* attemptDelivery: the pure parts *)

EffectiveMaxRetries(wh) ==
    IF wh.maxRetries <= 0 THEN DefaultMaxRetries ELSE wh.maxRetries

\* The client timeout when the endpoint's timeout_seconds is <= 0, in
\* seconds.
DefaultTimeoutSeconds == 30

RECURSIVE Pow2(_)
Pow2(n) == IF n <= 0 THEN 1 ELSE 2 * Pow2(n - 1)

\* An int64 (time.Duration, nanoseconds) in two's complement: 8 bytes, the
\* least significant first.
RECURSIVE Bytes(_, _)
Bytes(n, k) == IF k = 0 THEN <<>> ELSE <<n % 256>> \o Bytes(n \div 256, k - 1)

\* The int64 of a natural number below 2^31.
Word64(n) == Bytes(n, 8)

\* time.Duration(1 << uint(n)): the bit is shifted out when n >= 64 (and
\* uint(n) is at least 2^63 when n is negative).
ShiftLeftOne(n) ==
    IF n < 0 \/ n >= 64 THEN Word64(0)
    ELSE [i \in 1..8 |-> IF i = (n \div 8) + 1 THEN Pow2(n % 8) ELSE 0]

\* x[1]*y[k] + x[2]*y[k-1] + ... + x[i]*y[k-i+1]
RECURSIVE Column(_, _, _, _)
Column(x, y, k, i) ==
    IF i = 0 THEN 0 ELSE x[i] * y[k - i + 1] + Column(x, y, k, i - 1)

RECURSIVE MulFrom(_, _, _, _)
MulFrom(x, y, k, carry) ==
    IF k > 8 THEN <<>>
    ELSE LET sum == Column(x, y, k, k) + carry
         IN  <<sum % 256>> \o MulFrom(x, y, k + 1, sum \div 256)

\* int64 multiplication: the low 64 bits of the product.
Mul64(x, y) == MulFrom(x, y, 1, 0)

Negative64(x) == x[8] >= 128

RECURSIVE GreaterFrom(_, _, _)
GreaterFrom(x, y, i) ==
    IF i = 0 THEN FALSE
    ELSE IF x[i] # y[i] THEN x[i] > y[i]
    ELSE GreaterFrom(x, y, i - 1)

\* x > y on int64
Greater64(x, y) ==
    IF Negative64(x) # Negative64(y) THEN Negative64(y)
    ELSE GreaterFrom(x, y, 8)

\* time.Second
Second == Word64(1000000000)

\* 30 * time.Second
MaxDelay == Mul64(Word64(MaxDelaySeconds), Second)

\* delay := time.Duration(1<<uint(attempt-1)) * time.Second, capped at 30s.
RetryDelay(attempt) ==
    LET delay == Mul64(ShiftLeftOne(attempt - 1), Second)
    IN  IF Greater64(delay, MaxDelay) THEN MaxDelay ELSE delay

\* The delays of the attempt indexes the model uses, computed once.
RetryDelays == [a \in 1..MaxAttempt |-> RetryDelay(a)]

calculateRetryDelay(attempt) ==
    IF attempt \in DOMAIN RetryDelays THEN RetryDelays[attempt]
    ELSE RetryDelay(attempt)

\* k * time.Second for the whole seconds k up to the cap.
WholeSeconds == [k \in 0..MaxDelaySeconds |-> Mul64(Word64(k), Second)]

\* The whole seconds of a duration between 0 and the cap.
DurationSeconds(d) == CHOOSE k \in 0..MaxDelaySeconds : WholeSeconds[k] = d

\* time.Now().Add(d), the clock counting seconds.
AddDuration(t, d) == t + DurationSeconds(d)

\* timeout := time.Duration(webhook.TimeoutSeconds) * time.Second;
\* if timeout <= 0 { timeout = 30 * time.Second }
EffectiveTimeout(wh) ==
    LET timeout == Mul64(wh.timeoutSeconds, Second)
    IN  IF ~Greater64(timeout, Word64(0))
        THEN Mul64(Word64(DefaultTimeoutSeconds), Second)
        ELSE timeout

\* What attemptDelivery fixes before its loop.
Settings(wh) ==
    [maxRetries |-> EffectiveMaxRetries(wh), timeout |-> EffectiveTimeout(wh)]

\* responseStr[:1000] + "..."
ReadResponse(body) ==
    IF body.len > MaxResponseLen
    THEN [text |-> body.text, len |-> MaxResponseLen + 3, truncated |-> TRUE]
    ELSE [text |-> body.text, len |-> body.len, truncated |-> FALSE]

\* Mutant: the upper end of the success range is off by one.
deliverToEndpointUpTo300(o) ==
    IF o.kind \in ErrorKinds
    THEN [success |-> FALSE, response |-> NoResponse,
          err |-> [msg |-> "request failed", code |-> 0]]
    ELSE IF o.code >= 200 /\ o.code <= 300
    THEN [success |-> TRUE, response |-> ReadResponse(o.body), err |-> NoError]
    ELSE [success |-> FALSE, response |-> ReadResponse(o.body),
          err |-> [msg |-> "webhook returned status", code |-> o.code]]

\* deliverToEndpoint returns (success, response, err).
deliverToEndpoint(o) ==
    IF o.kind = "marshal_error"
    THEN [success |-> FALSE, response |-> NoResponse,
          err |-> [msg |-> "failed to marshal payload", code |-> 0]]
    ELSE IF o.kind = "request_error"
    THEN [success |-> FALSE, response |-> NoResponse,
          err |-> [msg |-> "failed to create request", code |-> 0]]
    ELSE IF o.kind = "transport_error"
    THEN [success |-> FALSE, response |-> NoResponse,
          err |-> [msg |-> "request failed", code |-> 0]]
    ELSE IF o.code >= 200 /\ o.code < 300
    THEN [success |-> TRUE, response |-> ReadResponse(o.body), err |-> NoError]
    ELSE [success |-> FALSE, response |-> ReadResponse(o.body),
          err |-> [msg |-> "webhook returned status", code |-> o.code]]

\* the top of the loop body: the attempt is counted before the call
BeginAttempt(d, attempt, t) ==
    [d EXCEPT !.attemptCount = attempt, !.lastAttempt = t]

\* Mutant: the response of a successful attempt is not stored.
OnSuccessNoResponse(d, response) ==
    [d EXCEPT !.status = "success", !.errorMessage = NoError,
              !.nextRetry = NoTime]

\* if success { ... }
OnSuccess(d, response) ==
    [d EXCEPT !.status = "success", !.response = response,
              !.errorMessage = NoError, !.nextRetry = NoTime]

\* Mutant: the last attempt is taken one attempt early.
OnFailureEarly(d, attempt, maxRetries, response, err, t) ==
    LET d1 == IF attempt + 1 < maxRetries
              THEN [d EXCEPT !.status = "pending",
                             !.nextRetry =
                                 AddDuration(t, calculateRetryDelay(attempt))]
              ELSE [d EXCEPT !.status = "failed", !.nextRetry = NoTime]
        d2 == IF err # NoError THEN [d1 EXCEPT !.errorMessage = err] ELSE d1
    IN  [d2 EXCEPT !.response = response]

\* Mutant: the last failed attempt leaves the record pending as well.
OnFailureLate(d, attempt, maxRetries, response, err, t) ==
    LET d1 == [d EXCEPT !.status = "pending",
                        !.nextRetry =
                            AddDuration(t, calculateRetryDelay(attempt))]
        d2 == IF err # NoError THEN [d1 EXCEPT !.errorMessage = err] ELSE d1
    IN  [d2 EXCEPT !.response = response]

\* } else { ... }
OnFailure(d, attempt, maxRetries, response, err, t) ==
    LET d1 == IF attempt < maxRetries
              THEN [d EXCEPT !.status = "pending",
                             !.nextRetry =
                                 AddDuration(t, calculateRetryDelay(attempt))]
              ELSE [d EXCEPT !.status = "failed", !.nextRetry = NoTime]
        d2 == IF err # NoError THEN [d1 EXCEPT !.errorMessage = err] ELSE d1
    IN  [d2 EXCEPT !.response = response]

\* Mutant: only the rows whose endpoint still subscribes to the event's
\* type are returned.
DueDeliveriesStillMatching(rows, t) ==
    {i \in DOMAIN rows :
        /\ rows[i].status = "pending"
        /\ rows[i].nextRetry # NoTime
        /\ rows[i].nextRetry <= t
        /\ ContainsType(webhooks[rows[i].webhook].eventTypes,
                        Events[rows[i].event].type, 1)}

\* Mutant: only the rows of enabled endpoints are returned.
DueDeliveriesOfEnabled(rows, t) ==
    {i \in DOMAIN rows :
        /\ rows[i].status = "pending"
        /\ rows[i].nextRetry # NoTime
        /\ rows[i].nextRetry <= t
        /\ webhooks[rows[i].webhook].enabled}

\* Where("status = ? AND next_retry <= ?", "pending", time.Now()): a NULL
\* next_retry compares as unknown and the row is not returned.
DueDeliveries(rows, t) ==
    {i \in DOMAIN rows :
        /\ rows[i].status = "pending"
        /\ rows[i].nextRetry # NoTime
        /\ rows[i].nextRetry <= t}

----------------------------------------------------------------------------
(* Goroutines *)

DispatchIds == 1..MaxDeliveries

SweepIds == (MaxDeliveries + 1)..(MaxDeliveries + MaxSweeps)

TaskIds == DispatchIds \cup SweepIds

\* The fields of a models.WebhookEndpoint value that attemptDelivery reads.
Loaded(wh) == [id |-> wh.id, maxRetries |-> wh.maxRetries]

NoWebhook == [id |-> "", maxRetries |-> 0]

NoEvent == [id |-> "", type |-> ""]

NoDelivery == NewDelivery(0, "", "")

\* A goroutine that has not started.  pc: idle, attempt (about to issue the
\* POST), http (POST in flight), sleep (backoff wait), done, lost.
\* cancelled: whether the ctx the goroutine was given has been cancelled.
\* posts, waits (history): the POSTs issued and the backoff waits begun by
\* the attemptDelivery invocation in progress; returned (history): the status
\* of the in-memory delivery when the last invocation returned; selected
\* (history): the ids of the rows the sweep's query returned.
IdleTask(kind) ==
    [kind |-> kind, pc |-> "idle", d |-> NoDelivery, wh |-> NoWebhook,
     ev |-> NoEvent, attempt |-> 0, maxRetries |-> 0, wakeAt |-> 0,
     queue |-> <<>>, cancelled |-> FALSE, posts |-> 0, waits |-> 0,
     returned |-> "", selected |-> {}]

\* attemptDelivery is entered: maxRetries is fixed and attempt starts at 1.
EnterAttemptDelivery(tk, wh, ev, d) ==
    [tk EXCEPT !.pc = "attempt", !.d = d, !.wh = wh, !.ev = ev,
               !.attempt = 1, !.maxRetries = EffectiveMaxRetries(wh),
               !.posts = 0, !.waits = 0]

\* for _, delivery := range deliveries { w.attemptDelivery(ctx, ...) }
\* (every row loaded here has its webhook and its event: rows are not deleted)
SweepNext(tk) ==
    IF tk.queue = <<>>
    THEN [IdleTask(tk.kind) EXCEPT !.pc = "done"]
    ELSE EnterAttemptDelivery([tk EXCEPT !.queue = Tail(tk.queue)],
                              Head(tk.queue).wh, Head(tk.queue).ev,
                              Head(tk.queue).d)

\* attemptDelivery returns
Return(tk) ==
    IF tk.kind = "sweep"
    THEN [SweepNext(tk) EXCEPT !.returned = tk.d.status]
    ELSE [IdleTask(tk.kind) EXCEPT !.pc = "done", !.returned = tk.d.status]

Working(tk) == tk.pc \in {"attempt", "http", "sleep"}

\* The outcomes of a store operation.
DbOutcomes == IF dbFaults THEN BOOLEAN ELSE {TRUE}

\* The sequences that list the elements of S once each.
Orders(S) ==
    {q \in [1..Cardinality(S) -> S] : \A i, j \in DOMAIN q : q[i] = q[j] => i = j}

\* History of one delivery: the POSTs issued, the attempts completed, the
\* failed ones among them, and the outcome of the first completed attempt.
NoHistory ==
    [posts |-> 0, completed |-> 0, fails |-> 0,
     first |-> Outcome("none", 0, "", 0)]

Is2xx(o) == o.kind = "response" /\ o.code \in 200..299

Completed(h, o) ==
    [h EXCEPT !.completed = @ + 1,
              !.fails = IF Is2xx(o) THEN @ ELSE @ + 1,
              !.first = IF h.completed = 0 THEN o ELSE @]

----------------------------------------------------------------------------
(* The delivery engine *)

\* How a DeliverEvent call went: whether the webhook lookup succeeded, what
\* the call returned and the webhooks whose record could not be created.
NoCall == [found |-> TRUE, ret |-> "none", failing |-> {}]

\* A Publish call not yet made.  atStart (history): the handlers of the
\* event's type when the call began; invoked (history): how often each
\* handler was called; status: the answer of the CreateEvent handler.
IdlePublish ==
    [pc |-> "idle", type |-> "", id |-> <<>>, saved |-> FALSE,
     saveLogged |-> FALSE,
     atStart |-> <<>>, handlers |-> <<>>, done |-> <<>>,
     invoked |-> [h \in 1..MaxSubscribes |-> 0],
     errors |-> 0, logged |-> 0, ret |-> "none", status |-> 0]

\* NewManager(store): no handlers; nothing stored; no Publish call made.
IdleManager ==
    [handlers |-> <<>>, stored |-> {}, subscribed |-> 0, crashed |-> FALSE,
     pubs |-> [p \in 1..MaxPublishes |-> IdlePublish]]

InitManager == mgr = IdleManager

\* A GetWebhookStats call not yet made: var stats struct{...}, all zero.
IdleStats ==
    [pc |-> "idle", total |-> 0, successful |-> 0, failed |-> 0,
     pending |-> 0, successRate |-> <<0, 1>>, code |-> 0]

\* The client addresses requests come from.
ClientIPs == {"ip1", "ip2"}

RequestIds == 1..MaxHandled

\* A request that has not arrived.  ptr: the *client the handler holds (an
\* index into objs, 0 for none); reg: the value of requests it has loaded;
\* ws (history): the start of the client's window when the request arrived.
IdleRequest == [pc |-> "idle", ip |-> "", ptr |-> 0, reg |-> 0, ws |-> NoTime]

\* No middleware yet.  objs: the client structs allocated; clients: the map,
\* from address to struct (0: no entry); cstart (history): per address, the
\* start of the window its latest request fell in.
NoLimiter ==
    [made |-> FALSE, maxRequests |-> 0, clock |-> 0, objs |-> <<>>,
     clients |-> [ip \in ClientIPs |-> 0],
     reqs |-> [r \in RequestIds |-> IdleRequest],
     cstart |-> [ip \in ClientIPs |-> NoTime], crashed |-> FALSE]

\* NewWorkflowManager: no workflow registered, nothing executed.  step: the
\* stepName of the executeStep call in progress; attempt, maxRetries: its
\* loop; ret: what the outermost executeStep returned.
NoWorkflow ==
    [pc |-> "none", workflow |-> <<>>, step |-> "", attempt |-> 0,
     maxRetries |-> 0, ret |-> ""]

InitAux == stats = IdleStats /\ limiter = NoLimiter /\ wf = NoWorkflow

InitLog ==
    /\ events = {}
    /\ txs = [t \in 1..MaxAppends |->
                [pc |-> "idle", stream |-> "", supplied |-> 0, maxSeq |-> 0,
                 stale |-> FALSE, overlapped |-> {}]]

InitPure ==
    /\ pin = Outcome("response", 0, "", 0)
    /\ pout = deliverToEndpoint(Outcome("transport_error", 0, "", 0))
    /\ ppc = "none"

InitEngine ==
    /\ now = 0
    /\ \E m \in {1, 2} :
          webhooks =
            [w1 |-> [id |-> "w1", enabled |-> TRUE,
                     eventTypes |-> <<"user.created">>, maxRetries |-> m],
             w2 |-> [id |-> "w2", enabled |-> FALSE,
                     eventTypes |-> <<"payment.processed", "user.created">>,
                     maxRetries |-> 0]]
    /\ deliveries = <<>>
    /\ tasks = [t \in TaskIds |->
                  IdleTask(IF t \in DispatchIds THEN "dispatch" ELSE "sweep")]
    /\ hist = [i \in DispatchIds |-> NoHistory]
    /\ calls = [e \in EventIds |-> 0]
    /\ updates = 0
    /\ lastCall = NoCall
    /\ InitAux

\* Mutant: a record that cannot be created ends the loop.
CreatedUntilFailure(matched, failing) ==
    SubSeq(matched, 1,
           Cardinality({i \in DOMAIN matched :
                          \A j \in 1..i : matched[j] \notin failing}))

\* for _, webhook := range webhooks { ... Create ...; if err { continue } }
\* The webhooks whose record is created, failing those whose Create fails.
CreatedRecords(matched, failing) ==
    SelectSeq(matched, LAMBDA w : w \notin failing)

\* return err when the lookup failed; return nil at the end otherwise
DeliverEventResult(found) == IF found THEN "nil" ELSE "error"

\* DeliverEvent(ctx, event).  failing: the webhooks whose Create fails.
DeliverEvent(e) ==
    /\ calls["e1"] + calls["e2"] < MaxCalls
    /\ \E found \in DbOutcomes :
       \E failing \in SUBSET (IF dbFaults THEN WebhookIds ELSE {}) :
          LET matched == IF found
                         THEN FilterByType(FindEnabled(webhooks), webhooks,
                                           Events[e].type)
                         ELSE <<>>
              created == CreatedRecords(matched, failing)
              base == Len(deliveries)
              new == [i \in 1..Len(created) |->
                        NewDelivery(base + i, created[i], e)]
          IN  /\ failing \subseteq Range(matched)
              /\ base + Len(created) <= MaxDeliveries
              /\ deliveries' = deliveries \o new
              /\ tasks' = [t \in TaskIds |->
                            IF t > base /\ t <= base + Len(created)
                            THEN EnterAttemptDelivery(IdleTask("dispatch"),
                                     Loaded(webhooks[created[t - base]]),
                                     Events[e],
                                     new[t - base])
                            ELSE tasks[t]]
              /\ lastCall' = [found |-> found,
                              ret |-> DeliverEventResult(found),
                              failing |-> failing]
    /\ calls' = [calls EXCEPT ![e] = @ + 1]
    /\ UNCHANGED <<now, webhooks, hist, updates, dbFaults>>
    /\ UNCHANGED <<logVars, pureVars, mgrVars, auxVars>>

\* The loop body up to the POST: the attempt is counted and the request sent.
AttemptStart(t) ==
    /\ tasks[t].pc = "attempt"
    /\ tasks' = [tasks EXCEPT ![t].pc = "http", ![t].posts = @ + 1,
                              ![t].d = BeginAttempt(@, tasks[t].attempt, now)]
    /\ hist' = [hist EXCEPT ![tasks[t].d.id].posts = @ + 1]
    /\ UNCHANGED <<now, webhooks, deliveries, calls, updates, dbFaults,
                 lastCall>>
    /\ UNCHANGED <<logVars, pureVars, mgrVars, auxVars>>

\* client.Do(req), req made with http.NewRequestWithContext(ctx, ...): with
\* ctx cancelled the call ends in an error.
CallOutcomes(tk) ==
    IF tk.cancelled THEN {Outcome("transport_error", 0, "", 0)}
    ELSE EngineOutcomes

\* w.db.WithContext(ctx).Save(delivery): with ctx cancelled the statement is
\* not executed and Save returns the context's error.
SaveOutcomes(tk) == IF tk.cancelled THEN {FALSE} ELSE DbOutcomes

\* Mutant: the UPDATE goes to every row of the delivery's endpoint.
SaveByWebhook(rows, d) ==
    [i \in DOMAIN rows |->
        IF rows[i].webhook = d.webhook THEN [d EXCEPT !.id = i] ELSE rows[i]]

\* w.db.WithContext(ctx).Save(delivery): all columns of the row with the
\* delivery's id are written.
Save(rows, d) == [rows EXCEPT ![d.id] = d]

\* The POST returns o; the record is updated and saved; then break, sleep or
\* leave the loop.
AttemptFinish(t) ==
    /\ tasks[t].pc = "http"
    /\ \E o \in CallOutcomes(tasks[t]), saved \in SaveOutcomes(tasks[t]) :
          LET tk == tasks[t]
              r == deliverToEndpoint(o)
              d1 == IF r.success
                    THEN OnSuccess(tk.d, r.response)
                    ELSE OnFailure(tk.d, tk.attempt, tk.maxRetries,
                                   r.response, r.err, now)
              tk1 == [tk EXCEPT !.d = d1]
          IN  /\ deliveries' = IF saved
                               THEN Save(deliveries, d1)
                               ELSE deliveries
              /\ hist' = [hist EXCEPT ![d1.id] = Completed(@, o)]
              /\ tasks' = [tasks EXCEPT ![t] =
                            IF r.success THEN Return(tk1)
                            ELSE IF tk.attempt < tk.maxRetries
                            THEN [tk1 EXCEPT !.pc = "sleep", !.waits = @ + 1,
                                     !.wakeAt = AddDuration(now,
                                         calculateRetryDelay(tk.attempt))]
                            ELSE Return(tk1)]
    /\ UNCHANGED <<now, webhooks, calls, updates, dbFaults, lastCall>>
    /\ UNCHANGED <<logVars, pureVars, mgrVars, auxVars>>

\* time.Sleep returns; attempt++
Wake(t) ==
    /\ tasks[t].pc = "sleep"
    /\ now >= tasks[t].wakeAt
    /\ tasks' = [tasks EXCEPT ![t].pc = "attempt", ![t].attempt = @ + 1]
    /\ UNCHANGED <<now, webhooks, deliveries, hist, calls, updates, dbFaults,
                 lastCall>>
    /\ UNCHANGED <<logVars, pureVars, mgrVars, auxVars>>

\* RetryFailedDeliveries(ctx): the query with its preloads, in any row order,
\* then the first attemptDelivery is entered.
RetryFailedDeliveries(s) ==
    /\ tasks[s].pc = "idle"
    /\ \E found \in DbOutcomes :
       \E q \in Orders(DueDeliveries(deliveries, now)) :
          LET rows == [i \in DOMAIN q |->
                         [d |-> deliveries[q[i]],
                          wh |-> Loaded(webhooks[deliveries[q[i]].webhook]),
                          ev |-> Events[deliveries[q[i]].event]]]
          IN  tasks' = [tasks EXCEPT ![s] =
                          IF found
                          THEN SweepNext([@ EXCEPT !.queue = rows,
                                                    !.selected = Range(q)])
                          ELSE [@ EXCEPT !.pc = "done"]]
    /\ UNCHANGED <<now, webhooks, deliveries, hist, calls, updates, dbFaults,
                 lastCall>>
    /\ UNCHANGED <<logVars, pureVars, mgrVars, auxVars>>

\* UpdateWebhook: enabled and event_types
UpdateWebhook(w) ==
    /\ updates < MaxUpdates
    /\ updates' = updates + 1
    /\ \/ \E en \in BOOLEAN \ {webhooks[w].enabled} :
             webhooks' = [webhooks EXCEPT ![w].enabled = en]
       \/ \E tl \in TypeLists \ {webhooks[w].eventTypes} :
             webhooks' = [webhooks EXCEPT ![w].eventTypes = tl]
    /\ UNCHANGED <<now, deliveries, tasks, hist, calls, dbFaults, lastCall>>
    /\ UNCHANGED <<logVars, pureVars, mgrVars, auxVars>>

\* The process stops and starts again: its goroutines are gone.
Restart ==
    /\ \E t \in TaskIds : Working(tasks[t])
    /\ tasks' = [t \in TaskIds |->
                   IF Working(tasks[t])
                   THEN [IdleTask(tasks[t].kind) EXCEPT !.pc = "lost"]
                   ELSE tasks[t]]
    /\ UNCHANGED <<now, webhooks, deliveries, hist, calls, updates, dbFaults,
                 lastCall>>
    /\ UNCHANGED <<logVars, pureVars, mgrVars, auxVars>>

Tick ==
    /\ now < MaxTime
    /\ now' = now + 1
    /\ UNCHANGED <<webhooks, deliveries, tasks, hist, calls, updates, dbFaults,
                 lastCall>>
    /\ UNCHANGED <<logVars, pureVars, mgrVars, auxVars>>

Next ==
    \/ \E e \in EventIds : DeliverEvent(e)
    \/ \E t \in TaskIds : AttemptStart(t)
    \/ \E t \in TaskIds : AttemptFinish(t)
    \/ \E t \in TaskIds : Wake(t)
    \/ \E s \in SweepIds : RetryFailedDeliveries(s)
    \/ \E w \in WebhookIds : UpdateWebhook(w)
    \/ Restart
    \/ Tick

Init == InitEngine /\ dbFaults = FALSE /\ InitLog /\ InitPure /\ InitManager

InitFaults == InitEngine /\ dbFaults = TRUE /\ InitLog /\ InitPure /\ InitManager

Spec == Init /\ [][Next]_vars

SpecFaults == InitFaults /\ [][Next]_vars

----------------------------------------------------------------------------
(* The delivery engine, RetryFailedDeliveries given a ctx that is cancelled *)

\* The ctx passed to RetryFailedDeliveries is cancelled while the call is in
\* attemptDelivery.  (Dispatch goroutines get context.Background().)
CancelContext(s) ==
    /\ Working(tasks[s])
    /\ ~tasks[s].cancelled
    /\ tasks' = [tasks EXCEPT ![s].cancelled = TRUE]
    /\ UNCHANGED <<now, webhooks, deliveries, hist, calls, updates, dbFaults,
                 lastCall>>
    /\ UNCHANGED <<logVars, pureVars, mgrVars, auxVars>>

NextCancel ==
    \/ \E e \in EventIds : DeliverEvent(e)
    \/ \E t \in TaskIds : AttemptStart(t)
    \/ \E t \in TaskIds : AttemptFinish(t)
    \/ \E t \in TaskIds : Wake(t)
    \/ \E s \in SweepIds : RetryFailedDeliveries(s)
    \/ \E s \in SweepIds : CancelContext(s)
    \/ \E w \in WebhookIds : UpdateWebhook(w)
    \/ Restart
    \/ Tick

SpecCancel == Init /\ [][NextCancel]_vars

----------------------------------------------------------------------------
(* The delivery engine with a scheduler that keeps sweeping *)

\* A time stamp one second further in the past; the oldest ones stay.
Earlier(x) == IF x = NoTime \/ x = 0 THEN x ELSE x - 1

EarlierDelivery(d) ==
    [d EXCEPT !.lastAttempt = Earlier(@), !.nextRetry = Earlier(@)]

EarlierTask(tk) ==
    [tk EXCEPT !.d = EarlierDelivery(@), !.wakeAt = Earlier(@),
               !.queue = [i \in DOMAIN tk.queue |->
                            [tk.queue[i] EXCEPT !.d = EarlierDelivery(@)]]]

\* A second passes.  Once the clock shows MaxTime it is the time stamps
\* that move: each is kept relative to the present.
TickOn ==
    /\ IF now < MaxTime
       THEN /\ now' = now + 1
            /\ UNCHANGED <<deliveries, tasks>>
       ELSE /\ now' = now
            /\ deliveries' = [i \in DOMAIN deliveries |->
                                EarlierDelivery(deliveries[i])]
            /\ tasks' = [t \in TaskIds |-> EarlierTask(tasks[t])]
    /\ UNCHANGED <<webhooks, hist, calls, updates, dbFaults, lastCall>>
    /\ UNCHANGED <<logVars, pureVars, mgrVars, auxVars>>

\* for range ticker.C: the scheduler's next round; after a restart the new
\* process starts its scheduler.
SweepAgain(s) ==
    /\ tasks[s].pc \in {"done", "lost"}
    /\ tasks' = [tasks EXCEPT ![s] = IdleTask("sweep")]
    /\ UNCHANGED <<now, webhooks, deliveries, hist, calls, updates, dbFaults,
                 lastCall>>
    /\ UNCHANGED <<logVars, pureVars, mgrVars, auxVars>>

\* The process stops and starts again, once, while a dispatch goroutine is
\* at work.
RestartOnce ==
    /\ \E t \in DispatchIds : Working(tasks[t])
    /\ \A t \in DispatchIds : tasks[t].pc # "lost"
    /\ Restart

NextScheduled ==
    \/ \E e \in EventIds : DeliverEvent(e)
    \/ \E t \in TaskIds : AttemptStart(t)
    \/ \E t \in TaskIds : AttemptFinish(t)
    \/ \E t \in TaskIds : Wake(t)
    \/ \E s \in SweepIds : RetryFailedDeliveries(s)
    \/ \E s \in SweepIds : SweepAgain(s)
    \/ RestartOnce
    \/ TickOn

\* Goroutines that can run do run, every POST comes to its end, time passes
\* and the ticker keeps firing.
FairScheduled ==
    /\ \A t \in TaskIds : WF_vars(AttemptStart(t))
    /\ \A t \in TaskIds : WF_vars(AttemptFinish(t))
    /\ \A t \in TaskIds : WF_vars(Wake(t))
    /\ \A s \in SweepIds : WF_vars(RetryFailedDeliveries(s))
    /\ \A s \in SweepIds : WF_vars(SweepAgain(s))
    /\ WF_vars(TickOn)

SpecScheduled == Init /\ [][NextScheduled]_vars /\ FairScheduled

----------------------------------------------------------------------------
(* The attemptDelivery loop under the scheduler, endpoints with and without *)
(* a max_retries of their own                                               *)

\* w1 is enabled with max_retries 0 (the default of 3 applies) or 2.
InitInvocation ==
    /\ now = 0
    /\ \E m \in {0, 2} :
          webhooks =
            [w1 |-> [id |-> "w1", enabled |-> TRUE,
                     eventTypes |-> <<"user.created">>, maxRetries |-> m],
             w2 |-> [id |-> "w2", enabled |-> FALSE,
                     eventTypes |-> <<"payment.processed", "user.created">>,
                     maxRetries |-> 0]]
    /\ deliveries = <<>>
    /\ tasks = [t \in TaskIds |->
                  IdleTask(IF t \in DispatchIds THEN "dispatch" ELSE "sweep")]
    /\ hist = [i \in DispatchIds |-> NoHistory]
    /\ calls = [e \in EventIds |-> 0]
    /\ updates = 0
    /\ lastCall = NoCall
    /\ InitAux
    /\ dbFaults = FALSE
    /\ InitLog /\ InitPure /\ InitManager

\* One delivery record is followed through its invocations.
NextInvocation ==
    \/ \E e \in EventIds : deliveries = <<>> /\ DeliverEvent(e)
    \/ \E t \in TaskIds : AttemptStart(t)
    \/ \E t \in TaskIds : AttemptFinish(t)
    \/ \E t \in TaskIds : Wake(t)
    \/ \E s \in SweepIds : RetryFailedDeliveries(s)
    \/ \E s \in SweepIds : SweepAgain(s)
    \/ TickOn

SpecInvocation == InitInvocation /\ [][NextInvocation]_vars /\ FairScheduled

----------------------------------------------------------------------------
(* GetWebhookStats beside the delivery engine *)

\* Model(&models.WebhookDelivery{}).Where("status = ?", status).Count(&n)
CountByStatus(rows, status) ==
    Cardinality({i \in DOMAIN rows : rows[i].status = status})

\* The answer when a count fails: 500 and nothing else is computed.
StatsFailed(st) == [st EXCEPT !.pc = "done", !.code = 500]

\* Model(&models.WebhookDelivery{}).Count(&stats.TotalDeliveries)
CountTotal ==
    /\ stats.pc = "idle"
    /\ \E ok \in DbOutcomes :
          stats' = IF ok
                   THEN [stats EXCEPT !.pc = "total",
                                      !.total = Len(deliveries)]
                   ELSE StatsFailed(stats)
    /\ UNCHANGED <<engineVars, logVars, pureVars, mgrVars, limiter, wf>>

\* Where("status = ?", "success").Count(&stats.SuccessfulDeliveries)
CountSuccessful ==
    /\ stats.pc = "total"
    /\ \E ok \in DbOutcomes :
          stats' = IF ok
                   THEN [stats EXCEPT !.pc = "successful",
                            !.successful = CountByStatus(deliveries, "success")]
                   ELSE StatsFailed(stats)
    /\ UNCHANGED <<engineVars, logVars, pureVars, mgrVars, limiter, wf>>

\* Where("status = ?", "failed").Count(&stats.FailedDeliveries)
CountFailed ==
    /\ stats.pc = "successful"
    /\ \E ok \in DbOutcomes :
          stats' = IF ok
                   THEN [stats EXCEPT !.pc = "failed",
                            !.failed = CountByStatus(deliveries, "failed")]
                   ELSE StatsFailed(stats)
    /\ UNCHANGED <<engineVars, logVars, pureVars, mgrVars, limiter, wf>>

\* Where("status = ?", "pending").Count(&stats.PendingDeliveries); then the
\* success rate, as the fraction successful * 100 / total, and the answer.
CountPending ==
    /\ stats.pc = "failed"
    /\ \E ok \in DbOutcomes :
          stats' = IF ok
                   THEN [stats EXCEPT
                           !.pc = "done", !.code = 200,
                           !.pending = CountByStatus(deliveries, "pending"),
                           !.successRate =
                               IF stats.total > 0
                               THEN <<stats.successful * 100, stats.total>>
                               ELSE <<0, 1>>]
                   ELSE StatsFailed(stats)
    /\ UNCHANGED <<engineVars, logVars, pureVars, mgrVars, limiter, wf>>

NextStats ==
    \/ \E e \in EventIds : DeliverEvent(e)
    \/ \E t \in TaskIds : AttemptStart(t)
    \/ \E t \in TaskIds : AttemptFinish(t)
    \/ \E t \in TaskIds : Wake(t)
    \/ Tick
    \/ CountTotal
    \/ CountSuccessful
    \/ CountFailed
    \/ CountPending

SpecStats == Init /\ [][NextStats]_vars

----------------------------------------------------------------------------
(* The event log: CreateEventWithSequence *)

Streams == {"s1", "s2"}

AppendIds == 1..MaxAppends

StreamEvents(s) == {e \in events : e.stream = s}

RECURSIVE SetMax(_)
SetMax(S) ==
    IF S = {} THEN 0
    ELSE LET x == CHOOSE y \in S : TRUE
             m == SetMax(S \ {x})
         IN  IF x > m THEN x ELSE m

\* Mutant: the maximum is taken over the whole table, not over the stream.
MaxSequenceOfLog(s) == SetMax({e.seq : e \in events})

\* Where("stream_id = ?", event.StreamID).
\* Select("COALESCE(MAX(sequence_number), 0)") over the committed rows
MaxSequence(s) == SetMax({e.seq : e \in StreamEvents(s)})

\* The sequence numbers a caller may leave in the event it passes in.
SuppliedSeqs == {0, 5}

\* Mutant: a sequence number supplied by the caller is kept.
AssignSequenceKeepSupplied(event, maxSeq) ==
    IF event.seq # 0 THEN event ELSE [event EXCEPT !.seq = maxSeq + 1]

\* event.SequenceNumber = maxSeq + 1
AssignSequence(event, maxSeq) == [event EXCEPT !.seq = maxSeq + 1]

\* Mutant: the row of a failed write stays in the table.
CommitOrRollbackKeepRow(rows, event, ok) == rows \cup {event}

\* db.Transaction: the row is committed when the function returns nil and
\* rolled back when it returns an error.
CommitOrRollback(rows, event, ok) == IF ok THEN rows \cup {event} ELSE rows

\* The appends between their scan and their commit.
OpenAppends == {b \in AppendIds : txs[b].pc = "read"}

\* Mutant: one lock for the whole log, held from the scan to the commit.
WaitsForAnyOpen(a, s) == OpenAppends \ {a}

\* The appends that append a to stream s has to wait for before it begins:
\* db.DB.Transaction begins a transaction and takes no lock, the scan is a
\* plain SELECT.
WaitsFor(a, s) == {}

\* The transaction of append a begins and scans the maximum of stream s.
\* Rows written by transactions that have not committed are not seen.
\* q is the sequence number the caller left in the event.  overlapped
\* (history): the appends that were between scan and commit at this scan.
TxRead(a, s, q) ==
    /\ txs[a].pc = "idle"
    /\ WaitsFor(a, s) = {}
    /\ \E ok \in DbOutcomes :
          txs' = [txs EXCEPT ![a] =
                    IF ok
                    THEN [pc |-> "read", stream |-> s, supplied |-> q,
                          maxSeq |-> MaxSequence(s), stale |-> FALSE,
                          overlapped |-> OpenAppends \ {a}]
                    ELSE [pc |-> "failed", stream |-> s, supplied |-> q,
                          maxSeq |-> 0, stale |-> FALSE,
                          overlapped |-> OpenAppends \ {a}]]
    /\ UNCHANGED <<events, engineVars, pureVars, mgrVars, auxVars>>

\* event.SequenceNumber = maxSeq + 1; tx.Create(event); commit, or roll back
\* when the write fails.  stale (history) marks the transactions whose scan
\* no longer shows the stream's maximum because this one committed.
TxCreate(a) ==
    /\ txs[a].pc = "read"
    /\ \E ok \in DbOutcomes :
          LET event == AssignSequence([id |-> a, stream |-> txs[a].stream,
                                       seq |-> txs[a].supplied],
                                      txs[a].maxSeq)
          IN  /\ events' = CommitOrRollback(events, event, ok)
              /\ txs' = [b \in AppendIds |->
                           IF b = a
                           THEN [txs[a] EXCEPT
                                   !.pc = IF ok THEN "committed" ELSE "failed"]
                           ELSE IF /\ ok
                                   /\ txs[b].pc = "read"
                                   /\ txs[b].stream = txs[a].stream
                                THEN [txs[b] EXCEPT !.stale = TRUE]
                                ELSE txs[b]]
    /\ UNCHANGED <<engineVars, pureVars, mgrVars, auxVars>>

NextLog ==
    \/ \E a \in AppendIds, s \in Streams, q \in SuppliedSeqs : TxRead(a, s, q)
    \/ \E a \in AppendIds : TxCreate(a)

IdleEngine ==
    /\ now = 0
    /\ webhooks = [w \in WebhookIds |->
                     [id |-> w, enabled |-> FALSE,
                      eventTypes |-> <<"user.created">>, maxRetries |-> 0]]
    /\ deliveries = <<>>
    /\ tasks = [t \in TaskIds |->
                  IdleTask(IF t \in DispatchIds THEN "dispatch" ELSE "sweep")]
    /\ hist = [i \in DispatchIds |-> NoHistory]
    /\ calls = [e \in EventIds |-> 0]
    /\ updates = 0
    /\ lastCall = NoCall
    /\ InitAux

InitLogOnly == IdleEngine /\ dbFaults = FALSE /\ InitLog /\ InitPure /\ InitManager

InitLogFaults == IdleEngine /\ dbFaults = TRUE /\ InitLog /\ InitPure /\ InitManager

SpecLog == InitLogOnly /\ [][NextLog]_vars

SpecLogFaults == InitLogFaults /\ [][NextLog]_vars

----------------------------------------------------------------------------
(* Pure functions *)

\* The HTTP outcomes drawn for deliverToEndpoint.
PureOutcomes ==
    {Outcome("response", c, "body", l) : c \in 100..599, l \in {0, 1000, 1001}}
        \cup {Outcome(k, 0, "", 0) : k \in ErrorKinds}

ApplyDeliverToEndpoint ==
    /\ ppc = "none"
    /\ ppc' = "deliverToEndpoint"
    /\ pout' = deliverToEndpoint(pin)
    /\ UNCHANGED <<pin, engineVars, logVars, mgrVars, auxVars>>

NextPure ==
    ApplyDeliverToEndpoint

InitPureInputs ==
    /\ IdleEngine /\ dbFaults = FALSE /\ InitLog /\ InitManager
    /\ pin \in PureOutcomes
    /\ pout = deliverToEndpoint(Outcome("transport_error", 0, "", 0))
    /\ ppc = "none"

SpecPure == InitPureInputs /\ [][NextPure]_vars

----------------------------------------------------------------------------
(* calculateRetryDelay on drawn attempt indexes *)

ApplyCalculateRetryDelay ==
    /\ ppc = "none"
    /\ ppc' = "calculateRetryDelay"
    /\ pout' = calculateRetryDelay(pin)
    /\ UNCHANGED <<pin, engineVars, logVars, mgrVars, auxVars>>

NextBackoff ==
    ApplyCalculateRetryDelay

InitBackoff ==
    /\ IdleEngine /\ dbFaults = FALSE /\ InitLog /\ InitManager
    /\ pin \in 1..MaxAttempt
    /\ pout = Word64(0)
    /\ ppc = "none"

SpecBackoff == InitBackoff /\ [][NextBackoff]_vars

----------------------------------------------------------------------------
(* attemptDelivery: maxRetries and timeout of drawn endpoints *)

\* The int64 -1.
MinusOne == [i \in 1..8 |-> 255]

\* The values of max_retries and timeout_seconds drawn: the columns are
\* plain integers and the handlers put no upper limit on them.
SettingsInputs ==
    [maxRetries : {-1, 0, 1, 5},
     timeoutSeconds : {Word64(k) : k \in 0..12} \cup {MinusOne}
                        \cup {ShiftLeftOne(k) : k \in {33, 34, 37, 62}}]

ApplySettings ==
    /\ ppc = "none"
    /\ ppc' = "Settings"
    /\ pout' = Settings(pin)
    /\ UNCHANGED <<pin, engineVars, logVars, mgrVars, auxVars>>

NextSettings ==
    ApplySettings

InitSettings ==
    /\ IdleEngine /\ dbFaults = FALSE /\ InitLog /\ InitManager
    /\ pin \in SettingsInputs
    /\ pout = <<>>
    /\ ppc = "none"

SpecSettings == InitSettings /\ [][NextSettings]_vars

----------------------------------------------------------------------------
(* deliverToEndpoint: the request it builds *)

\* hmac.New(sha256.New, key); h.Write(msg); h.Sum(nil): the tag, kept as the
\* term of its key and message.
HmacSha256(key, msg) == <<"hmac-sha256", key, msg>>

\* "sha256=" + hex.EncodeToString(tag)
generateSignature(payload, secret) ==
    [prefix |-> "sha256=", hex |-> HmacSha256(secret, payload)]

\* Mutant: the sequence number is left out of the payload.
PayloadWithoutSequence(event) ==
    [event_id |-> event.id, event_type |-> event.type,
     stream_id |-> event.stream, source |-> event.source,
     data |-> event.data, timestamp |-> <<"RFC3339", event.timestamp>>,
     sequence_number |-> 0]

\* The payload map of deliverToEndpoint.
Payload(event) ==
    [event_id |-> event.id, event_type |-> event.type,
     stream_id |-> event.stream, source |-> event.source,
     data |-> event.data, timestamp |-> <<"RFC3339", event.timestamp>>,
     sequence_number |-> event.seq]

\* The values an event's Data holds, as Go values: strings, and numbers as
\* int (literals of Go callers) or float64 (what decoding JSON gives).
DataValues ==
    {[kind |-> "string", val |-> "a<b"], [kind |-> "string", val |-> ""],
     [kind |-> "int", val |-> 12345], [kind |-> "float64", val |-> 12345],
     [kind |-> "float64", val |-> 0]}

\* json.Marshal of a Data value: the JSON text, kept as its token.  An int
\* and a whole float64 of the same value have the same digits.
EncodeValue(x) ==
    IF x.kind = "string" THEN <<"string", x.val>> ELSE <<"number", x.val>>

\* json.Unmarshal into map[string]interface{}: a number comes back as a
\* float64.
DecodeValue(text) ==
    IF text[1] = "string" THEN [kind |-> "string", val |-> text[2]]
    ELSE [kind |-> "float64", val |-> text[2]]

\* JSON.Value: the data column of the row written for an event.
StoreEvent(event) == [event EXCEPT !.data = EncodeValue(@)]

\* JSON.Scan: the event that Preload("Event") builds from the row.
LoadEvent(row) == [row EXCEPT !.data = DecodeValue(@)]

\* json.Marshal(payload): the bytes of the encoding.
Marshal(payload) == <<"json", [payload EXCEPT !.data = EncodeValue(@)]>>

\* Mutant: the signature header is set for every endpoint.
SignatureHeaderAlways(payloadBytes, secret) ==
    "X-Webhook-Signature" :> generateSignature(payloadBytes, secret)

\* if webhook.Secret != "" { req.Header.Set("X-Webhook-Signature", ...) }
SignatureHeader(payloadBytes, secret) ==
    IF secret # ""
    THEN "X-Webhook-Signature" :> generateSignature(payloadBytes, secret)
    ELSE <<>>

\* The request handed to client.Do.
BuildRequest(webhook, event) ==
    LET payloadBytes == Marshal(Payload(event))
    IN  [method |-> "POST", url |-> webhook.url, body |-> payloadBytes,
         headers |->
            ("Content-Type" :> "application/json")
              @@ ("User-Agent" :> "GoAPITemplate-Webhook/1.0")
              @@ SignatureHeader(payloadBytes, webhook.secret)
              @@ ("X-Event-Type" :> event.type)
              @@ ("X-Event-Stream" :> event.stream)
              @@ ("X-Event-ID" :> event.id)]

\* The endpoints and events drawn, and who makes the attempt: the dispatch
\* goroutine, or a sweep.
RequestInputs ==
    [webhook : [url : {"http://a", "http://b"}, secret : {"", "k1", "k2"}],
     event : [id : {"e1", "e2"}, type : EventTypes, stream : Streams,
              source : {"svc"}, data : DataValues, timestamp : {0},
              seq : {1, 2}],
     path : {"dispatch", "sweep"}]

\* The event attemptDelivery is given: the caller's value from DeliverEvent,
\* the row's reloaded value from RetryFailedDeliveries.
AttemptedEvent(event, path) ==
    IF path = "sweep" THEN LoadEvent(StoreEvent(event)) ELSE event

ApplyBuildRequest ==
    /\ ppc = "none"
    /\ ppc' = "BuildRequest"
    /\ pout' = BuildRequest(pin.webhook, AttemptedEvent(pin.event, pin.path))
    /\ UNCHANGED <<pin, engineVars, logVars, mgrVars, auxVars>>

NextRequest ==
    ApplyBuildRequest

InitRequest ==
    /\ IdleEngine /\ dbFaults = FALSE /\ InitLog /\ InitManager
    /\ pin \in RequestInputs
    /\ pout = <<>>
    /\ ppc = "none"

SpecRequest == InitRequest /\ [][NextRequest]_vars

----------------------------------------------------------------------------
(* The event Manager: Subscribe and Publish *)

PublishIds == 1..MaxPublishes

\* What a handler does when called: return nil, return an error, or panic.
HandlerBehaviours == {"ok", "error", "panic"}

\* handlers, exists := m.handlers[event.Type]: the empty list when the type
\* has no entry.
LookupHandlers(handlers, type) ==
    IF type \in DOMAIN handlers THEN handlers[type] ELSE <<>>

\* The answer of the CreateEvent handler for what Publish returned.
CreateEventStatus(ret) == IF ret # "nil" THEN 500 ELSE 201

\* Subscribe(eventType, handler), under m.mu.Lock.  The k-th call registers
\* handler k.
Subscribe(t) ==
    /\ ~mgr.crashed
    /\ mgr.subscribed < MaxSubscribes
    /\ LET h == mgr.subscribed + 1
       IN  mgr' = [mgr EXCEPT
                     !.subscribed = h,
                     !.handlers =
                        IF t \in DOMAIN mgr.handlers
                        THEN [mgr.handlers EXCEPT ![t] = Append(@, h)]
                        ELSE mgr.handlers @@ (t :> <<h>>)]
    /\ UNCHANGED <<engineVars, logVars, pureVars, auxVars>>

\* const charset in randomString
Charset ==
    <<"a", "b", "c", "d", "e", "f", "g", "h", "i", "j", "k", "l", "m",
      "n", "o", "p", "q", "r", "s", "t", "u", "v", "w", "x", "y", "z",
      "A", "B", "C", "D", "E", "F", "G", "H", "I", "J", "K", "L", "M",
      "N", "O", "P", "Q", "R", "S", "T", "U", "V", "W", "X", "Y", "Z",
      "0", "1", "2", "3", "4", "5", "6", "7", "8", "9">>

\* result[i] = charset[i%len(charset)] for i = 0..length-1
randomString(length) ==
    [k \in 1..length |-> Charset[((k - 1) % Len(Charset)) + 1]]

\* fmt.Sprintf("event_%d_%s", time.Now().Unix(), randomString(8))
generateEventID(t) == <<"event", t, randomString(8)>>

\* Create on table events, whose primary key is the id: the insert is
\* refused when a stored event has the id.
PrimaryKeyFree(id) == \A q \in mgr.stored : mgr.pubs[q].id # id

\* Publish begins: the event, which its caller left without an id, gets one
\* and m.store.SaveEvent is called; a failed save is logged and Publish
\* goes on.
PublishSave(p, t) ==
    /\ ~mgr.crashed
    /\ mgr.pubs[p].pc = "idle"
    /\ \E ok \in DbOutcomes :
          LET id == generateEventID(now)
              written == ok /\ PrimaryKeyFree(id)
          IN  mgr' = [mgr EXCEPT
                        !.stored = IF written THEN @ \cup {p} ELSE @,
                        !.pubs[p] =
                           [@ EXCEPT
                              !.pc = "saved", !.type = t, !.id = id,
                              !.saved = written, !.saveLogged = ~written,
                              !.atStart = LookupHandlers(mgr.handlers, t)]]
    /\ UNCHANGED <<engineVars, logVars, pureVars, auxVars>>

\* The handlers of the type are read under m.mu.RLock; with no entry Publish
\* returns nil, otherwise one goroutine per handler is started.
PublishLookup(p) ==
    /\ ~mgr.crashed
    /\ mgr.pubs[p].pc = "saved"
    /\ LET handlers == LookupHandlers(mgr.handlers, mgr.pubs[p].type)
           exists == mgr.pubs[p].type \in DOMAIN mgr.handlers
       IN  mgr' = [mgr EXCEPT !.pubs[p] =
                     IF ~exists
                     THEN [@ EXCEPT !.pc = "returned", !.ret = "nil",
                                    !.status = CreateEventStatus("nil")]
                     ELSE [@ EXCEPT !.pc = "running",
                                    !.handlers = handlers,
                                    !.done = [i \in DOMAIN handlers |-> FALSE]]]
    /\ UNCHANGED <<engineVars, logVars, pureVars, auxVars>>

\* The goroutine of the i-th handler calls it.  An error goes to the errors
\* channel; a panic is not recovered and ends the process.
HandlerRun(p, i) ==
    /\ ~mgr.crashed
    /\ mgr.pubs[p].pc = "running"
    /\ i \in DOMAIN mgr.pubs[p].handlers
    /\ ~mgr.pubs[p].done[i]
    /\ \E b \in HandlerBehaviours :
          LET h == mgr.pubs[p].handlers[i]
              called == [mgr.pubs[p] EXCEPT !.invoked[h] = @ + 1]
          IN  IF b = "panic"
              THEN mgr' = [mgr EXCEPT
                             !.crashed = TRUE,
                             !.pubs = [q \in PublishIds |->
                                         IF q = p
                                         THEN [called EXCEPT !.pc = "crashed"]
                                         ELSE IF mgr.pubs[q].pc
                                                   \in {"saved", "running"}
                                         THEN [mgr.pubs[q] EXCEPT
                                                 !.pc = "crashed"]
                                         ELSE mgr.pubs[q]]]
              ELSE mgr' = [mgr EXCEPT !.pubs[p] =
                             [called EXCEPT
                                !.done[i] = TRUE,
                                !.errors = IF b = "error" THEN @ + 1 ELSE @]]
    /\ UNCHANGED <<engineVars, logVars, pureVars, auxVars>>

\* wg.Wait() returns; the errors are logged; return nil.
PublishReturn(p) ==
    /\ ~mgr.crashed
    /\ mgr.pubs[p].pc = "running"
    /\ \A i \in DOMAIN mgr.pubs[p].done : mgr.pubs[p].done[i]
    /\ mgr' = [mgr EXCEPT !.pubs[p] =
                 [@ EXCEPT !.pc = "returned", !.logged = mgr.pubs[p].errors,
                           !.ret = "nil",
                           !.status = CreateEventStatus("nil")]]
    /\ UNCHANGED <<engineVars, logVars, pureVars, auxVars>>

NextPublish ==
    \/ \E t \in EventTypes : Subscribe(t)
    \/ \E p \in PublishIds, t \in EventTypes : PublishSave(p, t)
    \/ \E p \in PublishIds : PublishLookup(p)
    \/ \E p \in PublishIds, i \in 1..MaxSubscribes : HandlerRun(p, i)
    \/ \E p \in PublishIds : PublishReturn(p)
    \/ Tick

InitPublish ==
    IdleEngine /\ dbFaults = FALSE /\ InitLog /\ InitPure /\ mgr = IdleManager

InitPublishFaults ==
    IdleEngine /\ dbFaults = TRUE /\ InitLog /\ InitPure /\ mgr = IdleManager

SpecPublish == InitPublish /\ [][NextPublish]_vars

SpecPublishFaults == InitPublishFaults /\ [][NextPublish]_vars

----------------------------------------------------------------------------
(* RateLimit: the middleware and the requests that gin handles concurrently *)

\* window: time.Duration(cfg.RateLimit.WindowMinutes) * time.Minute, one unit
\* of the limiter's clock.
window == 1

\* The values of maxRequests the middleware is made with.
MaxRequestsChoices == {1, 2}

\* RateLimit(maxRequests, window): clients := make(map[string]*client)
RateLimit(m) ==
    /\ ~limiter.made
    /\ limiter' = [NoLimiter EXCEPT !.made = TRUE, !.maxRequests = m]
    /\ UNCHANGED <<engineVars, logVars, pureVars, mgrVars, stats, wf>>

Serving == limiter.made /\ ~limiter.crashed

At(r, pc) == Serving /\ limiter.reqs[r].pc = pc

\* The requests other than r whose next step is an access of the map, a
\* write being among the two accesses: the accesses may overlap, and the
\* runtime may then stop the process ("concurrent map read and map write",
\* "concurrent map writes").
OverlappingMapAccess(r, writing) ==
    {q \in RequestIds \ {r} :
        \/ limiter.reqs[q].pc = "insert"
        \/ (writing /\ limiter.reqs[q].pc = "lookup")}

MapAccessOutcomes(r, writing) ==
    IF OverlappingMapAccess(r, writing) = {} THEN {"ok"} ELSE {"ok", "fatal"}

\* time.Since(clientData.window) > window
WindowOver(start, t) == t - start > window

\* A request of address ip reaches the handler: ip := c.ClientIP().
Arrive(r, ip) ==
    /\ At(r, "idle")
    /\ LET start == limiter.cstart[ip]
           ws == IF start = NoTime \/ WindowOver(start, limiter.clock)
                 THEN limiter.clock ELSE start
       IN  limiter' = [limiter EXCEPT
                         !.reqs[r] = [IdleRequest EXCEPT !.pc = "lookup",
                                                         !.ip = ip, !.ws = ws],
                         !.cstart[ip] = ws]
    /\ UNCHANGED <<engineVars, logVars, pureVars, mgrVars, stats, wf>>

\* clientData, exists := clients[ip]
Lookup(r) ==
    /\ At(r, "lookup")
    /\ \E o \in MapAccessOutcomes(r, FALSE) :
          LET p == limiter.clients[limiter.reqs[r].ip]
          IN  limiter' =
                IF o = "fatal" THEN [limiter EXCEPT !.crashed = TRUE]
                ELSE [limiter EXCEPT
                        !.reqs[r].ptr = p,
                        !.reqs[r].pc = IF p = 0 THEN "insert" ELSE "since"]
    /\ UNCHANGED <<engineVars, logVars, pureVars, mgrVars, stats, wf>>

\* if time.Since(clientData.window) > window
Since(r) ==
    /\ At(r, "since")
    /\ limiter' = [limiter EXCEPT !.reqs[r].pc =
                      IF WindowOver(limiter.objs[limiter.reqs[r].ptr].window,
                                    limiter.clock)
                      THEN "reset" ELSE "load"]
    /\ UNCHANGED <<engineVars, logVars, pureVars, mgrVars, stats, wf>>

\* clientData.requests = 1
ResetRequests(r) ==
    /\ At(r, "reset")
    /\ limiter' = [limiter EXCEPT !.objs[limiter.reqs[r].ptr].requests = 1,
                                  !.reqs[r].pc = "restart"]
    /\ UNCHANGED <<engineVars, logVars, pureVars, mgrVars, stats, wf>>

\* clientData.window = time.Now(); c.Next()
ResetWindow(r) ==
    /\ At(r, "restart")
    /\ limiter' = [limiter EXCEPT
                     !.objs[limiter.reqs[r].ptr].window = limiter.clock,
                     !.reqs[r].pc = "passed"]
    /\ UNCHANGED <<engineVars, logVars, pureVars, mgrVars, stats, wf>>

\* clientData.requests++, the read
Load(r) ==
    /\ At(r, "load")
    /\ limiter' = [limiter EXCEPT
                     !.reqs[r].reg = limiter.objs[limiter.reqs[r].ptr].requests,
                     !.reqs[r].pc = "store"]
    /\ UNCHANGED <<engineVars, logVars, pureVars, mgrVars, stats, wf>>

\* clientData.requests++, the write
Store(r) ==
    /\ At(r, "store")
    /\ limiter' = [limiter EXCEPT
                     !.objs[limiter.reqs[r].ptr].requests =
                         limiter.reqs[r].reg + 1,
                     !.reqs[r].pc = "compare"]
    /\ UNCHANGED <<engineVars, logVars, pureVars, mgrVars, stats, wf>>

\* if clientData.requests > maxRequests { abort with 429 } else c.Next().
\* The value compared is the one just written or the one in memory now.
Compare(r) ==
    /\ At(r, "compare")
    /\ \E v \in {limiter.reqs[r].reg + 1,
                  limiter.objs[limiter.reqs[r].ptr].requests} :
          limiter' = [limiter EXCEPT !.reqs[r].pc =
                        IF v > limiter.maxRequests THEN "aborted"
                        ELSE "passed"]
    /\ UNCHANGED <<engineVars, logVars, pureVars, mgrVars, stats, wf>>

\* clients[ip] = &client{requests: 1, window: time.Now()}; c.Next()
Insert(r) ==
    /\ At(r, "insert")
    /\ \E o \in MapAccessOutcomes(r, TRUE) :
          limiter' =
            IF o = "fatal" THEN [limiter EXCEPT !.crashed = TRUE]
            ELSE [limiter EXCEPT
                    !.objs = Append(@, [requests |-> 1,
                                        window |-> limiter.clock]),
                    !.clients[limiter.reqs[r].ip] = Len(limiter.objs) + 1,
                    !.reqs[r].pc = "passed"]
    /\ UNCHANGED <<engineVars, logVars, pureVars, mgrVars, stats, wf>>

\* A unit of the window's length passes.  The handler's own steps take no
\* time on this scale: the clock moves between requests' steps of arrival.
LimiterTick ==
    /\ Serving
    /\ limiter.clock < MaxClock
    /\ \A r \in RequestIds :
          limiter.reqs[r].pc \in {"idle", "passed", "aborted"}
    /\ limiter' = [limiter EXCEPT !.clock = @ + 1]
    /\ UNCHANGED <<engineVars, logVars, pureVars, mgrVars, stats, wf>>

NextLimiter ==
    \/ \E m \in MaxRequestsChoices : RateLimit(m)
    \/ \E r \in RequestIds, ip \in ClientIPs : Arrive(r, ip)
    \/ \E r \in RequestIds : Lookup(r)
    \/ \E r \in RequestIds : Since(r)
    \/ \E r \in RequestIds : ResetRequests(r)
    \/ \E r \in RequestIds : ResetWindow(r)
    \/ \E r \in RequestIds : Load(r)
    \/ \E r \in RequestIds : Store(r)
    \/ \E r \in RequestIds : Compare(r)
    \/ \E r \in RequestIds : Insert(r)
    \/ LimiterTick

SpecLimiter == InitLogOnly /\ [][NextLimiter]_vars

----------------------------------------------------------------------------
(* WorkflowManager: RegisterWorkflow and the execution of a workflow *)

\* The keys of workflow.Steps.
StepNames == {"a", "b"}

\* The workflows handed to RegisterWorkflow: step a with every combination
\* of links (to itself, to b, to a step that does not exist, none), with
\* and without a condition and retries; step b linking back to a or ending.
Workflows ==
    [id : {"", "wf1"},
     startStep : {"", "a", "zz"},
     steps : [a : [maxRetries : {-1, 0, 2}, continueOnError : BOOLEAN,
                   condition : {"", "input.ok"},
                   onSuccess : {"", "a", "b", "zz"},
                   onError : {"", "a", "b"}],
              b : [maxRetries : {0}, continueOnError : {FALSE},
                   condition : {""},
                   onSuccess : {"", "a"},
                   onError : {"", "a"}]]]

\* validateWorkflow(workflow): nil or the error
validateWorkflow(workflow) ==
    IF workflow.id = "" THEN "workflow ID is required"
    ELSE IF workflow.startStep = "" THEN "start step is required"
    ELSE IF workflow.startStep \notin DOMAIN workflow.steps
    THEN "start step not found in steps"
    ELSE "nil"

\* RegisterWorkflow(workflow)
RegisterWorkflow(workflow) ==
    /\ wf.pc = "none"
    /\ wf' = IF validateWorkflow(workflow) = "nil"
             THEN [wf EXCEPT !.pc = "registered", !.workflow = workflow]
             ELSE [wf EXCEPT !.pc = "rejected"]
    /\ UNCHANGED <<engineVars, logVars, pureVars, mgrVars, stats, limiter>>

\* handleWorkflowExecution: wm.executeStep(ctx, workflow, workflow.StartStep,
\* input)
handleWorkflowExecution ==
    /\ wf.pc = "registered"
    /\ wf' = [wf EXCEPT !.pc = "step", !.step = wf.workflow.startStep]
    /\ UNCHANGED <<engineVars, logVars, pureVars, mgrVars, stats, limiter>>

\* evaluateCondition(condition, variables): "return true for non-empty
\* conditions"
evaluateCondition(condition) == TRUE

\* if nextStep != "" { return wm.executeStep(..., nextStep, ...) }; return err
FollowLink(w, nextStep, err) ==
    IF nextStep # ""
    THEN [w EXCEPT !.pc = "step", !.step = nextStep, !.attempt = 0,
                   !.maxRetries = 0]
    ELSE [w EXCEPT !.pc = "returned", !.ret = err, !.attempt = 0,
                   !.maxRetries = 0]

\* "Determine next step"
NextStepName(step, err) ==
    IF err # "nil"
    THEN IF step.continueOnError THEN step.onSuccess ELSE step.onError
    ELSE step.onSuccess

\* maxRetries := step.Config.MaxRetries; if maxRetries == 0 { maxRetries = 1 }
StepMaxRetries(step) == IF step.maxRetries = 0 THEN 1 ELSE step.maxRetries

\* executeStep is entered for wf.step: the lookup, the condition, and the
\* head of the retry loop (which a negative maxRetries leaves at once, with
\* err still nil).
executeStep ==
    /\ wf.pc = "step"
    /\ wf' =
         IF wf.step \notin DOMAIN wf.workflow.steps
         THEN [wf EXCEPT !.pc = "returned", !.ret = "step not found"]
         ELSE LET step == wf.workflow.steps[wf.step]
              IN  IF step.condition # "" /\ ~evaluateCondition(step.condition)
                  THEN FollowLink(wf, step.onSuccess, "nil")
                  ELSE IF 1 <= StepMaxRetries(step)
                  THEN [wf EXCEPT !.pc = "attempt", !.attempt = 1,
                                  !.maxRetries = StepMaxRetries(step)]
                  ELSE FollowLink(wf, NextStepName(step, "nil"), "nil")
    /\ UNCHANGED <<engineVars, logVars, pureVars, mgrVars, stats, limiter>>

\* err = wm.executeStepWithTimeout(ctx, step, variables) returns: break on
\* success, sleep before a retry, or leave the loop and follow the link.
executeStepWithTimeout ==
    /\ wf.pc = "attempt"
    /\ \E err \in {"nil", "error"} :
          LET step == wf.workflow.steps[wf.step]
          IN  wf' = IF err = "nil"
                    THEN FollowLink(wf, NextStepName(step, err), err)
                    ELSE IF wf.attempt < wf.maxRetries
                    THEN [wf EXCEPT !.pc = "sleep"]
                    ELSE FollowLink(wf, NextStepName(step, err), err)
    /\ UNCHANGED <<engineVars, logVars, pureVars, mgrVars, stats, limiter>>

\* time.Sleep(retryDelay) returns; attempt++
StepRetrySleep ==
    /\ wf.pc = "sleep"
    /\ wf' = [wf EXCEPT !.pc = "attempt", !.attempt = @ + 1]
    /\ UNCHANGED <<engineVars, logVars, pureVars, mgrVars, stats, limiter>>

NextWorkflow ==
    \/ \E workflow \in Workflows : RegisterWorkflow(workflow)
    \/ handleWorkflowExecution
    \/ executeStep
    \/ executeStepWithTimeout
    \/ StepRetrySleep

\* The goroutine that executes the workflow runs; every attempt ends, by
\* its result or by its timeout; every sleep ends.
FairWorkflow ==
    /\ WF_vars(handleWorkflowExecution)
    /\ WF_vars(executeStep)
    /\ WF_vars(executeStepWithTimeout)
    /\ WF_vars(StepRetrySleep)

SpecWorkflow == InitLogOnly /\ [][NextWorkflow]_vars /\ FairWorkflow

----------------------------------------------------------------------------
(* Claims *)

\* The endpoint's effective maximum number of attempts.
ClaimMaxRetries(w) ==
    IF webhooks[w].maxRetries >= 1 THEN webhooks[w].maxRetries ELSE 3

\* backoff(a) = min(2^(a-1), 30) seconds
ClaimBackoff(a) == IF 2^(a - 1) < 30 THEN 2^(a - 1) ELSE 30

\* Task t, whose POST for delivery i was in flight, takes the step that
\* completes the attempt.
Completes(t, i) ==
    /\ tasks[t].pc = "http"
    /\ tasks[t].d.id = i
    /\ tasks'[t] # tasks[t]
    /\ hist'[i].completed = hist[i].completed + 1

\* C1: in every reachable state the sequence numbers of the committed events
\* of one stream are exactly 1..N, N the number of its events: no two events
\* of a stream share a number and there is no gap.
C1_DenseSequences ==
    \A s \in Streams :
        {e.seq : e \in StreamEvents(s)} = 1..Cardinality(StreamEvents(s))

\* C2: once a delivery record is persisted with status success or failed, no
\* later write changes its status.
C2_TerminalStatusKept ==
    [][\A i \in DOMAIN deliveries :
          deliveries[i].status \in {"success", "failed"}
              => deliveries'[i].status = deliveries[i].status]_vars

\* C3: no two tasks are inside attemptDelivery (attempting, POST in flight
\* or in the backoff wait) for the same delivery record at once.
C3_OneTaskPerDelivery ==
    \A t, u \in TaskIds :
        (t # u /\ Working(tasks[t]) /\ Working(tasks[u]))
            => tasks[t].d.id # tasks[u].d.id

\* C4: in every persisted state of every delivery record, next_retry is set
\* if and only if the status is pending and the attempt count is below the
\* endpoint's effective maxRetries.
C4_NextRetryIffAttemptsRemain ==
    \A i \in DOMAIN deliveries :
        (deliveries[i].nextRetry # NoTime)
            <=> (/\ deliveries[i].status = "pending"
                 /\ deliveries[i].attemptCount
                        < ClaimMaxRetries(deliveries[i].webhook))

\* C5: a DeliverEvent(e) call creates a delivery record for webhook w if and
\* only if w is enabled and subscribed to e's type when the call is made; the
\* call changes no other record, and the only tasks it starts are the ones
\* attempting the records it created.
C5_RecordIffEnabledAndSubscribed ==
    [][\A e \in EventIds :
          calls'[e] = calls[e] + 1 =>
            LET new == (Len(deliveries) + 1)..Len(deliveries')
            IN  /\ \A w \in WebhookIds :
                      (\E i \in new : /\ deliveries'[i].webhook = w
                                      /\ deliveries'[i].event = e)
                        <=> (/\ webhooks[w].enabled
                             /\ Events[e].type \in Range(webhooks[w].eventTypes))
                /\ \A i \in DOMAIN deliveries : deliveries'[i] = deliveries[i]
                /\ \A t \in TaskIds :
                      tasks'[t] # tasks[t] =>
                        /\ t \in new
                        /\ tasks'[t].d = deliveries'[t]
                        /\ tasks'[t].pc = "attempt"]_vars

\* C5 witness: the one call for e1 created a record for the enabled,
\* subscribed w1 and none for w2, disabled though subscribed to the type.
C5_Witness ==
    /\ calls["e1"] = 1 /\ calls["e2"] = 0 /\ updates = 0
    /\ Len(deliveries) = 1
    /\ deliveries[1].webhook = "w1"
    /\ ~webhooks["w2"].enabled
    /\ "user.created" \in Range(webhooks["w2"].eventTypes)

\* C6: a delivery whose first attempt got a 2xx response has status success,
\* attempt_count 1, that response stored, no next_retry and no error message,
\* and it is the only record of its (webhook, event) when DeliverEvent was
\* called once for the event.
C6_FirstAttemptSuccess ==
    \A i \in DOMAIN deliveries :
        (hist[i].completed >= 1 /\ Is2xx(hist[i].first)) =>
            /\ deliveries[i].status = "success"
            /\ deliveries[i].attemptCount = 1
            /\ deliveries[i].response.text = hist[i].first.body.text
            /\ deliveries[i].response.len = hist[i].first.body.len
            /\ deliveries[i].nextRetry = NoTime
            /\ deliveries[i].errorMessage = NoError
            /\ (calls[deliveries[i].event] = 1 =>
                  \A j \in DOMAIN deliveries :
                      (/\ deliveries[j].webhook = deliveries[i].webhook
                       /\ deliveries[j].event = deliveries[i].event) => j = i)

\* C6 witness: a delivery whose first attempt got 200 and whose task is done.
C6_Witness ==
    \E i \in DOMAIN deliveries :
        /\ hist[i].completed = 1
        /\ hist[i].first.code = 200
        /\ tasks[i].pc = "done"
        /\ deliveries[i].status = "success"

C8_SweepSuccessCountsOn ==
    [][\A s \in SweepIds : \A i \in DOMAIN deliveries :
          (/\ Completes(s, i)
           /\ hist'[i].fails = hist[i].fails
           /\ hist[i].completed = hist[i].fails
           /\ deliveries[i].status = "pending"
           /\ \A u \in TaskIds \ {s} :
                 ~(Working(tasks[u]) /\ tasks[u].d.id = i)) =>
            /\ deliveries'[i].status = "success"
            /\ deliveries'[i].response.text = "ok"
            /\ deliveries'[i].attemptCount = hist[i].fails + 1]_vars

\* C9: deliverToEndpoint reports success exactly when a response with a
\* status code in 200..299 was received; every other code and every error
\* before a response is a failure.
C9_SuccessIff2xx ==
    ppc = "deliverToEndpoint" =>
        (pout.success <=>
            (pin.kind = "response" /\ pin.code >= 200 /\ pin.code <= 299))

\* C9 witness: a 299 response was classified as a success.
C9_Witness ==
    ppc = "deliverToEndpoint" /\ pin.code = 299 /\ pout.success

\* C10: every attempt a RetryFailedDeliveries call makes is for a record
\* that is, as persisted when the attempt is made, pending with next_retry
\* set and at or before the current time; a record persisted as success or
\* failed, or pending with no next_retry, is never attempted by the sweep.
C10_SweepAttemptsOnlyDue ==
    [][\A s \in SweepIds :
          (tasks[s].pc = "attempt" /\ tasks'[s].pc = "http") =>
            LET i == tasks[s].d.id
            IN  /\ deliveries[i].status = "pending"
                /\ deliveries[i].nextRetry # NoTime
                /\ deliveries[i].nextRetry <= now]_vars

\* C11: a commit of CreateEventWithSequence stores the event with sequence
\* number 1 + the stream's current maximum (0 for an empty stream) whatever
\* number the caller supplied, the scan having returned that maximum; so the
\* new event is numbered above every event already in its stream.  Judged
\* for appends made one after another: no other append to the stream
\* committed between this append's scan and its commit.
C11_AppendAssignsNextNumber ==
    [][\A a \in AppendIds :
          LET s == txs'[a].stream
              old == {e.seq : e \in StreamEvents(s)}
              isMax(m) == IF old = {} THEN m = 0
                          ELSE m \in old /\ \A x \in old : x <= m
          IN  /\ (txs[a].pc = "idle" /\ txs'[a].pc = "read") =>
                    isMax(txs'[a].maxSeq)
              /\ (txs[a].pc = "read" /\ txs'[a].pc = "committed"
                                     /\ ~txs[a].stale) =>
                    \E e \in events' \ events :
                        /\ events' = events \cup {e}
                        /\ e.id = a /\ e.stream = s
                        /\ isMax(e.seq - 1)
                        /\ \A x \in old : x < e.seq]_vars

\* C11 witness: three appends to s1, none overtaken, hold 1, 2, 3 although
\* a caller supplied the number 5.
C11_Witness ==
    /\ \A a \in AppendIds :
          /\ txs[a].pc = "committed" /\ txs[a].stream = "s1" /\ ~txs[a].stale
    /\ \E a \in AppendIds : txs[a].supplied = 5
    /\ {e.seq : e \in StreamEvents("s1")} = {1, 2, 3}

\* C12: when the scan or the write of an append fails the append ends in
\* error and no event of it is in the log, now or later; the stream's
\* maximum is unchanged, so an append made afterwards (and not overtaken)
\* to a dense stream 1..N gets N + 1 and the stream stays dense.
C12_FailedAppendConsumesNothing ==
    [][\A a \in AppendIds :
          /\ (txs[a].pc # "failed" /\ txs'[a].pc = "failed") =>
                events' = events
          /\ txs[a].pc = "failed" =>
                /\ txs'[a] = txs[a]
                /\ \A e \in events' : e.id # a
          /\ (txs[a].pc = "read" /\ txs'[a].pc = "committed"
                                 /\ ~txs[a].stale) =>
                LET s == txs[a].stream
                    n == Cardinality(StreamEvents(s))
                IN  {e.seq : e \in StreamEvents(s)} = 1..n =>
                       {e.seq : e \in {x \in events' : x.stream = s}} = 1..(n + 1)]_vars

\* C12 witness: an append to s1 scanned maximum 1 and failed at its write;
\* the stream holds 1 and 2, the 2 committed by an append not overtaken.
C12_Witness ==
    \E a, b \in AppendIds :
        /\ txs[a].pc = "failed" /\ txs[a].stream = "s1" /\ txs[a].maxSeq = 1
        /\ txs[b].pc = "committed" /\ txs[b].stream = "s1" /\ ~txs[b].stale
        /\ txs[b].maxSeq = 1
        /\ {e.seq : e \in StreamEvents("s1")} = {1, 2}

\* C13: for every attempt index a >= 1, calculateRetryDelay(a) is
\* min(2^(a-1), 30) seconds: 1, 2, 4, 8, 16 seconds for a = 1..5 and 30
\* seconds for every larger a.
C13_BackoffIsCappedPowerOfTwo ==
    ppc = "calculateRetryDelay" =>
        pout = Mul64(Word64(IF pin <= 5 THEN 2^(pin - 1) ELSE MaxDelaySeconds),
                     Second)

\* C14: a delivery request carries the X-Webhook-Signature header if and
\* only if the endpoint's secret is not empty, and the header is then the
\* signature, under that endpoint's secret, of exactly the bytes sent as the
\* request body.
C14_SignatureIffSecret ==
    ppc = "BuildRequest" =>
        /\ ("X-Webhook-Signature" \in DOMAIN pout.headers)
              <=> (pin.webhook.secret # "")
        /\ "X-Webhook-Signature" \in DOMAIN pout.headers =>
              /\ pout.headers["X-Webhook-Signature"].prefix = "sha256="
              /\ pout.headers["X-Webhook-Signature"].hex
                    = <<"hmac-sha256", pin.webhook.secret, pout.body>>

\* C14 witness: a signed request for an endpoint with secret k2, its body the
\* encoding of the event's payload.
C14_Witness ==
    /\ ppc = "BuildRequest"
    /\ pin.webhook.secret = "k2"
    /\ "X-Webhook-Signature" \in DOMAIN pout.headers
    /\ pin.path = "dispatch"
    /\ pout.body = Marshal(Payload(pin.event))

\* C16: the response text stored for a delivery has at most 1000 characters
\* whatever the response body, and is the body unchanged when the body has
\* at most 1000 characters.
C16_StoredResponseAtMost1000 ==
    (ppc = "deliverToEndpoint" /\ pin.kind = "response") =>
        /\ pout.response.len <= 1000
        /\ pin.body.len <= 1000 =>
              /\ pout.response.len = pin.body.len
              /\ pout.response.text = pin.body.text
              /\ ~pout.response.truncated

\* C18: DeliverEvent returns nil whenever its webhook lookup succeeded, and
\* then every matching webhook whose record could be created gets its record
\* and its attempt, whichever other records could not be created; the step
\* that completes an attempt, failed or not, changes no other task and no
\* other delivery record.
C18_DeliveryFailuresStayLocal ==
    [][/\ \A e \in EventIds :
            (calls'[e] = calls[e] + 1 /\ lastCall'.found) =>
              LET new == (Len(deliveries) + 1)..Len(deliveries')
                  matching == {w \in WebhookIds :
                                 /\ webhooks[w].enabled
                                 /\ Events[e].type
                                       \in Range(webhooks[w].eventTypes)}
              IN  /\ lastCall'.ret = "nil"
                  /\ \A w \in matching \ lastCall'.failing :
                        \E i \in new :
                            /\ deliveries'[i].webhook = w
                            /\ deliveries'[i].event = e
                            /\ tasks'[i].pc = "attempt"
                            /\ tasks'[i].d.id = i
       /\ \A t \in TaskIds : \A i \in DOMAIN deliveries :
            Completes(t, i) =>
              /\ \A u \in TaskIds \ {t} : tasks'[u] = tasks[u]
              /\ \A j \in DOMAIN deliveries \ {i} :
                    deliveries'[j] = deliveries[j]
              /\ lastCall' = lastCall]_vars

\* C18 witness: the record for w1 could not be created, the call returned
\* nil, and the record for w2 was created and its attempt has failed.
C18_Witness ==
    /\ lastCall.failing = {"w1"} /\ lastCall.ret = "nil"
    /\ \E i \in DOMAIN deliveries :
          /\ deliveries[i].webhook = "w2"
          /\ hist[i].fails >= 1

\* C17: a Publish call whose store write failed returns an error and the
\* CreateEvent handler answers 500; it never returns nil (201) with the
\* failure only logged.
C17_SaveFailureSurfaced ==
    \A p \in PublishIds :
        (mgr.pubs[p].pc = "returned" /\ ~mgr.pubs[p].saved) =>
            /\ mgr.pubs[p].ret = "error"
            /\ mgr.pubs[p].status = 500

\* Handler i of Publish call p was called and returned an error or
\* panicked.
HandlerFailed(p) ==
    \/ mgr.pubs[p].errors > 0
    \/ \E i \in DOMAIN mgr.pubs[p].handlers :
          /\ mgr.pubs[p].invoked[mgr.pubs[p].handlers[i]] > 0
          /\ ~mgr.pubs[p].done[i]

\* C19: when a handler of a Publish call returned an error or panicked, the
\* call still ends with every handler of the event's type run to
\* completion, the event in the store, the result nil and the failure
\* logged.
C19_HandlersIsolated ==
    \A p \in PublishIds :
        (mgr.pubs[p].pc \in {"returned", "crashed"} /\ HandlerFailed(p)) =>
            /\ \A i \in DOMAIN mgr.pubs[p].done : mgr.pubs[p].done[i]
            /\ p \in mgr.stored
            /\ mgr.pubs[p].ret = "nil"
            /\ mgr.pubs[p].logged = mgr.pubs[p].errors

\* C20: when a Publish call has returned, every handler that was subscribed
\* to the event's type before the call began has been called exactly once,
\* no handler has been called twice, every handler called is subscribed to
\* the event's type (Subscribe calls running meanwhile included), and the
\* event is in the store, also when no handler matched.
C20_PublishCallsSubscribedOnce ==
    \A p \in PublishIds :
        mgr.pubs[p].pc = "returned" =>
            /\ \A h \in Range(mgr.pubs[p].atStart) : mgr.pubs[p].invoked[h] = 1
            /\ \A h \in 1..MaxSubscribes :
                  /\ mgr.pubs[p].invoked[h] <= 1
                  /\ mgr.pubs[p].invoked[h] = 1 =>
                        /\ mgr.pubs[p].type \in DOMAIN mgr.handlers
                        /\ h \in Range(mgr.handlers[mgr.pubs[p].type])
            /\ p \in mgr.stored

\* C20 witness: a returned Publish whose two handlers were each called once,
\* one of them subscribed after the call began, while the handler of the
\* other type was not called; and a returned Publish with no handler.
C20_Witness ==
    \E p, q \in PublishIds :
        /\ mgr.pubs[p].pc = "returned"
        /\ Len(mgr.pubs[p].handlers) = 2
        /\ Len(mgr.pubs[p].atStart) = 1
        /\ \E h \in 1..MaxSubscribes :
              /\ h \notin Range(mgr.pubs[p].handlers)
              /\ h <= mgr.subscribed
              /\ mgr.pubs[p].invoked[h] = 0
        /\ mgr.pubs[q].pc = "returned"
        /\ mgr.pubs[q].atStart = <<>>
        /\ q \in mgr.stored

\* C21: the step that completes an attempt, whatever its outcome, stores the
\* updated record (attempt count, last attempt) before the delivery's next
\* attempt or backoff wait, and the stored attempt count is then at least
\* the number of attempts completed for the delivery.
C21_AttemptPersistedAndCounted ==
    [][\A t \in TaskIds : \A i \in DOMAIN deliveries :
          Completes(t, i) =>
            /\ deliveries'[i].attemptCount = tasks[t].d.attemptCount
            /\ deliveries'[i].lastAttempt = tasks[t].d.lastAttempt
            /\ deliveries'[i].attemptCount >= hist'[i].completed]_vars


\* C22: a DeliverEvent call returns without any POST having been issued or
\* awaited, and no delivery handed to attemptDelivery, by DeliverEvent or by
\* RetryFailedDeliveries, waits for its attempt to start while the task that
\* is to make it has a POST in flight or sits in the backoff wait of another
\* delivery.
C22_NoDeliveryWaitsOnAnother ==
    [][/\ \A e \in EventIds :
            calls'[e] = calls[e] + 1 =>
              /\ hist' = hist
              /\ lastCall'.ret # "none"
              /\ \A t \in TaskIds : tasks'[t].pc \notin {"http", "sleep"}
                                       \/ tasks'[t] = tasks[t]
       /\ \A t \in TaskIds :
            tasks'[t].pc \in {"http", "sleep"} => tasks'[t].queue = <<>>]_vars


C24_OneRecordPerPair ==
    \A i, j \in DOMAIN deliveries :
        (/\ deliveries[i].webhook = deliveries[j].webhook
         /\ deliveries[i].event = deliveries[j].event) => i = j


\* C25: every delivery record that is created eventually has status success
\* or failed, the endpoint answering every call and the sweep running again
\* and again, also when the process stopped while the record's dispatch
\* goroutine was at work.
C25_EveryDeliveryEnds ==
    \A i \in DispatchIds :
        (i \in DOMAIN deliveries)
            ~> (/\ i \in DOMAIN deliveries
                /\ deliveries[i].status \in {"success", "failed"})


\* Task t completes an attempt for delivery i that was cancelled or timed
\* out: its ctx is cancelled, or the record stored by the step carries the
\* error of a call that got no response.
CancelledOrTimedOut(t, i) ==
    /\ Completes(t, i)
    /\ hist'[i].fails = hist[i].fails + 1
    /\ \/ tasks[t].cancelled
       \/ deliveries'[i].errorMessage = [msg |-> "request failed", code |-> 0]

\* C26: an attempt that is cancelled or times out is stored as a failed
\* attempt: the record stored after it counts the attempt, has its time and
\* its error, and its attempt count is not below the one stored before;
\* also for the attempts RetryFailedDeliveries makes under a cancelled ctx.
C26_CancelledAttemptRecorded ==
    [][\A t \in TaskIds : \A i \in DOMAIN deliveries :
          CancelledOrTimedOut(t, i) =>
            /\ deliveries'[i].attemptCount = tasks[t].d.attemptCount
            /\ deliveries'[i].lastAttempt = tasks[t].d.lastAttempt
            /\ deliveries'[i].errorMessage.msg = "request failed"
            /\ deliveries'[i].status \in {"pending", "failed"}
            /\ deliveries'[i].attemptCount >= deliveries[i].attemptCount]_vars


\* The 128-bit product of two non-negative int64 values.
RECURSIVE WideFrom(_, _, _, _)
WideFrom(x, y, k, carry) ==
    IF k > 16 THEN <<>>
    ELSE LET sum == Column(x, y, k, k) + carry
         IN  <<sum % 256>> \o WideFrom(x, y, k + 1, sum \div 256)

Wide(x) == x \o [i \in 1..8 |-> 0]

WideProduct(x, y) == WideFrom(Wide(x), Wide(y), 1, 0)

\* C27: attemptDelivery works with maxRetries 3 for an endpoint whose
\* max_retries is zero or negative and with a timeout of 30 seconds for one
\* whose timeout_seconds is zero or negative; a positive max_retries is the
\* maximum as configured and a positive timeout_seconds is the timeout, that
\* many seconds.
C27_DefaultsForNonPositive ==
    ppc = "Settings" =>
        /\ pout.maxRetries = IF pin.maxRetries <= 0 THEN 3 ELSE pin.maxRetries
        /\ (Negative64(pin.timeoutSeconds) \/ pin.timeoutSeconds = Word64(0))
              => pout.timeout = Mul64(Word64(30), Second)
        /\ ~(Negative64(pin.timeoutSeconds) \/ pin.timeoutSeconds = Word64(0))
              => Wide(pout.timeout) = WideProduct(pin.timeoutSeconds, Second)


C29_EventIdsUnique ==
    \A p, q \in PublishIds :
        (p # q /\ mgr.pubs[p].pc # "idle" /\ mgr.pubs[q].pc # "idle") =>
            /\ mgr.pubs[p].id # mgr.pubs[q].id
            /\ ~dbFaults => (mgr.pubs[p].saved /\ mgr.pubs[q].saved)


\* Endpoint w is subscribed to the type of event e.
Subscribed(ws, w, e) == Events[e].type \in Range(ws[w].eventTypes)

\* C30: a change of an endpoint's subscribed event types removes no delivery
\* record and touches no task, records are never removed, a task inside
\* attemptDelivery can take its next step and a sweep takes up every due
\* pending record, whether or not the record's endpoint still subscribes to
\* the event's type; and DeliverEvent changes no webhook endpoint.
C30_MatchingIsSnapshot ==
    [][/\ updates' = updates + 1 => (deliveries' = deliveries /\ tasks' = tasks)
       /\ \A i \in DOMAIN deliveries :
             /\ i \in DOMAIN deliveries'
             /\ deliveries'[i].webhook = deliveries[i].webhook
             /\ deliveries'[i].event = deliveries[i].event
       /\ \A t \in TaskIds :
             /\ tasks[t].pc = "attempt" => ENABLED AttemptStart(t)
             /\ tasks[t].pc = "http" => ENABLED AttemptFinish(t)
       /\ \A s \in SweepIds :
             (tasks[s].pc = "idle" /\ tasks'[s].pc # "idle") =>
                LET taken == {tasks'[s].queue[k].d.id :
                                 k \in DOMAIN tasks'[s].queue}
                             \cup (IF tasks'[s].pc = "attempt"
                                   THEN {tasks'[s].d.id} ELSE {})
                IN  taken = {i \in DOMAIN deliveries :
                               /\ deliveries[i].status = "pending"
                               /\ deliveries[i].nextRetry # NoTime
                               /\ deliveries[i].nextRetry <= now}
       /\ (\E e \in EventIds : calls'[e] = calls[e] + 1) =>
             webhooks' = webhooks]_vars

\* C30 witness: the record for (w1, e1) exists, w1 no longer subscribes to
\* e1's type, and after the change an attempt for the record was completed
\* by a sweep.
C30_Witness ==
    \E i \in DOMAIN deliveries : \E s \in SweepIds :
        /\ deliveries[i].webhook = "w1" /\ deliveries[i].event = "e1"
        /\ ~Subscribed(webhooks, "w1", "e1")
        /\ updates = 1
        /\ tasks[s].pc = "sleep" /\ tasks[s].d.id = i
        /\ hist[i].completed = 2


\* C31: the stored attempt_count of a delivery never decreases, and after
\* every completed attempt, by the dispatching task or by a sweep, it equals
\* the number of attempts completed for the delivery so far.
C31_AttemptCountIsTotal ==
    [][\A i \in DOMAIN deliveries :
          /\ deliveries'[i].attemptCount >= deliveries[i].attemptCount
          /\ (\E t \in TaskIds : Completes(t, i)) =>
                deliveries'[i].attemptCount = hist'[i].completed]_vars

\* C32: the number of POSTs issued for one delivery record, by all tasks
\* together, never exceeds the effective maxRetries of its endpoint.
C32_PostsAtMostMaxRetries ==
    \A i \in DOMAIN deliveries :
        hist[i].posts <= ClaimMaxRetries(deliveries[i].webhook)


\* The endpoint's effective maximum number of attempts, as handed to the
\* invocation of attemptDelivery that task tk is in.
ClaimInvocationMax(tk) ==
    IF tk.wh.maxRetries >= 1 THEN tk.wh.maxRetries ELSE 3

\* C33: an invocation of attemptDelivery issues at most maxRetries POSTs and
\* begins at most maxRetries - 1 backoff waits; it makes no further attempt
\* after a successful one; it comes to its end; and when it returns, the
\* in-memory delivery has status success or failed.
C33_InvocationBounded ==
    /\ [](\A t \in TaskIds :
            /\ Working(tasks[t]) =>
                  /\ tasks[t].posts <= ClaimInvocationMax(tasks[t])
                  /\ tasks[t].waits <= ClaimInvocationMax(tasks[t]) - 1
            /\ tasks[t].returned \in {"", "success", "failed"})
    /\ [][\A t \in TaskIds : \A i \in DOMAIN deliveries :
            (Completes(t, i) /\ hist'[i].fails = hist[i].fails) =>
                \/ ~Working(tasks'[t])
                \/ (tasks'[t].d.id # i /\ tasks'[t].posts = 0)]_vars
    /\ \A t \in TaskIds : Working(tasks[t]) ~> ~Working(tasks[t])

\* C33 witness: an invocation for an endpoint left at the default of three
\* attempts has made its third POST after two backoff waits.
C33_Witness ==
    \E t \in TaskIds :
        /\ tasks[t].pc = "http"
        /\ tasks[t].wh.maxRetries = 0
        /\ tasks[t].posts = 3
        /\ tasks[t].waits = 2


C35_StreamsNumberedApart ==
    [][\A a \in AppendIds :
          (txs[a].pc = "read" /\ txs'[a].pc = "committed") =>
            LET s == txs[a].stream
            IN  /\ \A o \in Streams \ {s} :
                      /\ {e \in events' : e.stream = o} = StreamEvents(o)
                      /\ SetMax({e.seq : e \in {x \in events' : x.stream = o}})
                            = SetMax({e.seq : e \in StreamEvents(o)})
                /\ \A b \in AppendIds \ {a} :
                      txs[b].stream # s => txs'[b] = txs[b]
                /\ StreamEvents(s) = {} =>
                      \A e \in events' \ events : e.stream = s /\ e.seq = 1]_vars

\* C35 witness: stream s1 holds the events 1 and 2 and the one event of
\* stream s2, whose append scanned with no other append open, has number 1.
C35_Witness ==
    /\ {e.seq : e \in StreamEvents("s1")} = {1, 2}
    /\ Cardinality(StreamEvents("s1")) = 2
    /\ \E e \in StreamEvents("s2") :
          /\ StreamEvents("s2") = {e}
          /\ e.seq = 1
          /\ txs[e.id].overlapped = {}


\* C36: the counts one GetWebhookStats call answers with add up:
\* total_deliveries = successful + failed + pending, also when deliveries
\* are created or change status during the call.
C36_StatsAddUp ==
    (stats.pc = "done" /\ stats.code = 200) =>
        stats.total = stats.successful + stats.failed + stats.pending


\* C37: disabling an endpoint changes no delivery record and no task; a
\* task inside attemptDelivery for a record of a disabled endpoint can take
\* every next step of its loop (POST, completion, wake-up) and goes on to
\* its backoff wait after a failed attempt that is not its last; and a
\* sweep takes up the due pending records of disabled endpoints.
C37_DisabledStillDelivered ==
    [][/\ \A w \in WebhookIds :
             (webhooks[w].enabled /\ ~webhooks'[w].enabled) =>
                (deliveries' = deliveries /\ tasks' = tasks)
       /\ \A t \in TaskIds :
             (Working(tasks[t]) /\ ~webhooks[tasks[t].wh.id].enabled) =>
                /\ tasks[t].pc = "attempt" => ENABLED AttemptStart(t)
                /\ tasks[t].pc = "http" => ENABLED AttemptFinish(t)
                /\ (tasks[t].pc = "sleep" /\ now >= tasks[t].wakeAt) =>
                      ENABLED Wake(t)
                /\ (/\ Completes(t, tasks[t].d.id)
                    /\ hist'[tasks[t].d.id].fails > hist[tasks[t].d.id].fails
                    /\ tasks[t].posts < ClaimInvocationMax(tasks[t])) =>
                      (tasks'[t].pc = "sleep" /\ tasks'[t].d.id = tasks[t].d.id)
       /\ \A s \in SweepIds :
             (tasks[s].pc = "idle" /\ tasks'[s].pc # "idle") =>
                \A i \in DOMAIN deliveries :
                    (/\ ~webhooks[deliveries[i].webhook].enabled
                     /\ deliveries[i].status = "pending"
                     /\ deliveries[i].nextRetry # NoTime
                     /\ deliveries[i].nextRetry <= now) =>
                        i \in tasks'[s].selected]_vars

\* C37 witness: w1 has been disabled, and a sweep that took up w1's pending
\* record is about to send the POST while the dispatching task, after its
\* first failed attempt, is still in its loop for the same record.
C37_Witness ==
    \E i \in DOMAIN deliveries : \E s \in SweepIds : \E t \in DispatchIds :
        /\ deliveries[i].webhook = "w1"
        /\ ~webhooks["w1"].enabled
        /\ tasks[s].pc = "attempt" /\ tasks[s].d.id = i
        /\ i \in tasks[s].selected
        /\ Working(tasks[t]) /\ tasks[t].d.id = i
        /\ hist[i].completed = 1


\* The requests of address ip that arrived in the window begun at ws and
\* were passed to the next handler.
PassedInWindow(ip, ws) ==
    {r \in RequestIds :
        /\ limiter.reqs[r].pc = "passed"
        /\ limiter.reqs[r].ip = ip
        /\ limiter.reqs[r].ws = ws}

\* C38: for each client address, at most maxRequests of the requests of one
\* window are passed to the next handler, the window starting at the
\* address's first request and starting anew with the first request that
\* arrives more than `window` after that start; requests may be handled
\* concurrently.
C38_AtMostMaxRequestsPerWindow ==
    \A ip \in ClientIPs : \A ws \in 0..MaxClock :
        Cardinality(PassedInWindow(ip, ws)) <= limiter.maxRequests


\* C39: for every workflow RegisterWorkflow accepts, an execution that has
\* begun returns, and no visit of a step makes more than max(1, MaxRetries)
\* attempts.
C39_ExecutionTerminates ==
    /\ [](wf.pc \in {"attempt", "sleep"} =>
            LET configured == wf.workflow.steps[wf.step].maxRetries
            IN  wf.attempt <= (IF configured > 1 THEN configured ELSE 1))
    /\ (wf.pc \in {"step", "attempt", "sleep"}) ~> (wf.pc = "returned")

============================================================================
